---- MODULE Spec2Model ----
(***************************************************************************)
(* SkillSphere: the conversation/session store of                          *)
(* multi_tool_agent/agent.py (manage_conversation_state), the helpers that *)
(* derive suggestions and stages from a tool result, and the domain tools  *)
(* that read and write the store.                                          *)
(*                                                                         *)
(* Python strings are TLA+ strings; dicts are functions whose DOMAIN is    *)
(* the set of keys present; a tool result is a record whose fields are     *)
(* the keys of the returned dict.                                          *)
(***************************************************************************)
EXTENDS Integers, Sequences, FiniteSets, TLC

VARIABLES memory, contexts, history, result, raised, call

\* The store as the objects it is made of, for calls that overlap in time:
\* attrs holds the three attributes of the function object (a reference into
\* the heap, 0 while the attribute is not set), heap the dicts that were
\* created, and threads the position and the local variables of each call.
VARIABLES attrs, heap, threads

vars == <<memory, contexts, history, result, raised, call, attrs, heap, threads>>

-----------------------------------------------------------------------------
(* Bounds *)

\* largest interaction count a session is driven to by the tools
MaxInteractions == 5

\* largest interaction count in the runs of the store alone
MaxStoreInteractions == 2

\* largest interaction count handed to get_dynamic_motivation on its own
MaxCount == 7

-----------------------------------------------------------------------------
(* Inputs the tool-dispatch layer supplies *)

\* user ids of the tool calls; user ids of the direct store calls, one a
\* string prefix of the other
Users == {"u"}

StoreUsers == {"u", "u2"}

\* the documented actions and one that is not recognised
Actions ==
    {"save_profile", "get_profile", "set_context", "get_context", "save_progress",
     "get_progress", "reset", "list_all", "delete_all"}

DataInputs == {"d1", "d2"}

\* the default "general" and the value the chaining rule compares against
ContextTypes == {"general", "learning_planned"}

\* number of distinct draws of the pseudo-random generator
NumDraws == 2

RandomDraws == 0..(NumDraws - 1)

InterestsInputs == {"technology", "technology, problem solving", "design technology marketing"}

SkillsInputs == {"", "JavaScript, HTML/CSS"}

ExperienceLevels == {"beginner", "intermediate"}

CareerInputs == {"Software Developer", "Data Scientist", "Astronaut"}

TimeInputs == {"2-3 hours daily", "1-2 hours daily"}

\* the pace the server passes to the cost tool
CostTimeInputs == {"2-3 hours daily"}

\* 0, 2 (with empty pieces), 3, 6, 10, 15 and 16 skills
CompletedSkillsInputs ==
    {"", "a, ,b,", "html, css, git", "a,b,c,d,e,f", "a,b,c,d,e,f,g,h,i,j",
     "a,b,c,d,e,f,g,h,i,j,k,l,m,n,o", "a,b,c,d,e,f,g,h,i,j,k,l,m,n,o,p"}

ResourceInputs == {"online courses", "bootcamp"}

NameInputs == {"Ana"}

Clock == {"2025-01-01"}

\* the clock formatted to the minute
ClockMinutes == {"2025-01-01 09:00"}

\* keys auto_chain_tools and determine_workflow_stage look for
ChainKeys == {"career_paths", "curriculum", "costs", "profile", "career_analysis", "progress"}

\* values of total_cost: below, at and above the threshold of the rule
CostInputs == {50, 1000, 1500}

\* results of every shape: any subset of the keys, with or without total_cost
ChainResults ==
    {[k \in K |-> 1] : K \in SUBSET ChainKeys}
      \cup {[k \in K \cup {"total_cost"} |-> IF k = "total_cost" THEN c ELSE 1] :
               K \in SUBSET ChainKeys, c \in CostInputs}

ChainContexts == {"new_user", "learning_planned"}

GapCurrentInputs ==
    {"", "Python, SQL", "python", "java", "machine, learning", "JavaScript, HTML/CSS",
     "python, sql, docker"}

GapRequiredInputs ==
    {<<>>, <<"Python", "SQL", "Docker">>, <<"JavaScript">>, <<"Machine Learning">>,
     <<"Python", "JavaScript", "Git", "SQL">>, <<"Python", "Statistics", "SQL", "Pandas">>}

MotivationCounts == 0..MaxCount

\* one draw for every index of the larger pool
PoolDraws == 0..9

FieldInputs == {"software_development", "Data Science", "Astronaut"}

-----------------------------------------------------------------------------
(* Python dict and str primitives *)

EmptyDict == [k \in {} |-> ""]

DictGet(d, k, default) == IF k \in DOMAIN d THEN d[k] ELSE default

\* a variant that replaces the whole dict by the one entry
DictSetOnly(d, k, v) == [x \in {k} |-> v]

\* a variant that keeps the value of a key that is already there
DictSetDefault(d, k, v) == [x \in (DOMAIN d) \cup {k} |-> IF x \in DOMAIN d THEN d[x] ELSE v]

DictSet(d, k, v) == [x \in (DOMAIN d) \cup {k} |-> IF x = k THEN v ELSE d[x]]

DictPop(d, k) == [x \in (DOMAIN d) \ {k} |-> d[x]]

\* a dict literal written as a function constructor, with every entry evaluated
RECURSIVE DictOf(_, _)
DictOf(F, keys) ==
    LET k == CHOOSE x \in keys : TRUE
    IN  IF keys = {k} THEN k :> F[k] ELSE (k :> F[k]) @@ DictOf(F, keys \ {k})

\* str.startswith
StartsWith(s, prefix) ==
    /\ Len(prefix) <= Len(s)
    /\ SubSeq(s, 1, Len(prefix)) = prefix

\* the `in` operator on two strings
Contains(s, sub) ==
    \E i \in 1..(Len(s) - Len(sub) + 1) : SubSeq(s, i, i + Len(sub) - 1) = sub

UpperAlphabet == "ABCDEFGHIJKLMNOPQRSTUVWXYZ"

LowerAlphabet == "abcdefghijklmnopqrstuvwxyz"

LowerChar(c) ==
    IF \E i \in 1..26 : SubSeq(UpperAlphabet, i, i) = c
    THEN LET i == CHOOSE j \in 1..26 : SubSeq(UpperAlphabet, j, j) = c
         IN  SubSeq(LowerAlphabet, i, i)
    ELSE c

\* str.lower
RECURSIVE Lower(_)
Lower(s) ==
    IF s = "" THEN "" ELSE LowerChar(SubSeq(s, 1, 1)) \o Lower(SubSeq(s, 2, Len(s)))

RECURSIVE SplitFrom(_, _, _, _)
SplitFrom(s, sep, i, cur) ==
    IF i > Len(s) THEN <<cur>>
    ELSE IF SubSeq(s, i, i) = sep THEN <<cur>> \o SplitFrom(s, sep, i + 1, "")
    ELSE SplitFrom(s, sep, i + 1, cur \o SubSeq(s, i, i))

\* str.split(sep) for a one-character separator: empty pieces are kept
Split(s, sep) == SplitFrom(s, sep, 1, "")

\* str.split(): pieces between runs of blanks, empty pieces dropped
SplitWhitespace(s) == SelectSeq(Split(s, " "), LAMBDA t : t # "")

\* str.strip
RECURSIVE Strip(_)
Strip(s) ==
    IF s = "" THEN ""
    ELSE IF SubSeq(s, 1, 1) = " " THEN Strip(SubSeq(s, 2, Len(s)))
    ELSE IF SubSeq(s, Len(s), Len(s)) = " " THEN Strip(SubSeq(s, 1, Len(s) - 1))
    ELSE s

\* " ".join(seq)
RECURSIVE Join(_)
Join(seq) ==
    IF Len(seq) = 0 THEN ""
    ELSE IF Len(seq) = 1 THEN seq[1]
    ELSE seq[1] \o " " \o Join(Tail(seq))

Digits == "0123456789"

DigitValue(c) == (CHOOSE j \in 1..10 : SubSeq(Digits, j, j) = c) - 1

\* int(s) for a string of decimal digits
RECURSIVE ParseInt(_)
ParseInt(s) ==
    IF Len(s) = 0 THEN 0
    ELSE 10 * ParseInt(SubSeq(s, 1, Len(s) - 1)) + DigitValue(SubSeq(s, Len(s), Len(s)))

\* [f(x) for x in seq]
MapSeq(seq, f(_)) == [i \in 1..Len(seq) |-> f(seq[i])]

\* sum of a sequence of integers
RECURSIVE SumSeq(_)
SumSeq(seq) == IF Len(seq) = 0 THEN 0 ELSE Head(seq) + SumSeq(Tail(seq))

\* s.replace(old, new) for a one-character old
RECURSIVE ReplaceChar(_, _, _)
ReplaceChar(s, old, new) ==
    IF Len(s) = 0 THEN ""
    ELSE (IF SubSeq(s, 1, 1) = old THEN new ELSE SubSeq(s, 1, 1))
             \o ReplaceChar(SubSeq(s, 2, Len(s)), old, new)

-----------------------------------------------------------------------------
(* get_dynamic_motivation: the two message pools and random.choice *)

motivation_messages ==
    << "Great progress! You're building momentum in your career journey!",
       "You're on fire! Keep pushing towards your goals!",
       "Consistency is key - you're doing amazing!",
       "Every step forward is progress. You've got this!",
       "Your dedication to growth is inspiring!",
       "Success comes to those who persist. Keep going!",
       "Each interaction brings you closer to your dream career!",
       "You're investing in yourself - the best investment ever!",
       "Your commitment to learning will pay off big time!",
       "Growth mindset in action! You're unstoppable!" >>

advanced_messages(interaction_count) ==
    << "This is your " \o ToString(interaction_count)
           \o "th interaction! You're truly committed to success!",
       "You're becoming a SkillSphere power user! Your persistence will pay off!",
       "Advanced learner alert! Your dedication sets you apart from the crowd!",
       "You're in the top tier of engaged learners. Success is inevitable!" >>

\* random.choice(seq) for the draw rnd of the pseudo-random generator
random_choice(seq, rnd) == seq[(rnd % Len(seq)) + 1]

\* a variant that already switches pools at the fifth interaction
get_dynamic_motivation_from_five(interaction_count, rnd) ==
    IF interaction_count >= 5
    THEN random_choice(advanced_messages(interaction_count), rnd)
    ELSE random_choice(motivation_messages, rnd)

get_dynamic_motivation(interaction_count, rnd) ==
    IF interaction_count > 5
    THEN random_choice(advanced_messages(interaction_count), rnd)
    ELSE random_choice(motivation_messages, rnd)

-----------------------------------------------------------------------------
(* manage_conversation_state *)

\* the three dicts attached to the function object
Store(m, c, h) == [memory |-> m, contexts |-> c, history |-> h]

\* a variant whose new entry starts at 1 instead of 0
TrackInteractionFromOne(h, user_id) ==
    LET h0 == IF user_id \in DOMAIN h
              THEN h
              ELSE DictSet(h, user_id, [interactions |-> 1, last_context |-> "general"])
    IN  [h0 EXCEPT ![user_id].interactions = @ + 1]

\* a variant that starts every entry afresh instead of keeping the one it finds
TrackInteractionForgetful(h, user_id) ==
    DictSet(h, user_id, [interactions |-> 1, last_context |-> "general"])

\* lines 47-50: the history entry is created on first reference and counted
TrackInteraction(h, user_id) ==
    LET h0 == IF user_id \in DOMAIN h
              THEN h
              ELSE DictSet(h, user_id, [interactions |-> 0, last_context |-> "general"])
    IN  [h0 EXCEPT ![user_id].interactions = @ + 1]

\* the suggestions table of set_context
context_suggestions(context_type) ==
    CASE context_type = "career_exploration" ->
             <<"Analyze your skills", "Explore salary ranges", "Find job opportunities">>
      [] context_type = "learning_planning" ->
             <<"Calculate learning costs", "Find scholarships", "Track progress">>
      [] context_type = "progress_tracking" ->
             <<"Update skill progress", "Get motivation", "Adjust learning path">>
      [] context_type = "financial_planning" ->
             <<"Budget analysis", "ROI calculations", "Scholarship search">>
      [] OTHER -> <<"Continue conversation">>

\* a variant that deletes the profile entry only
ResetMemoryProfileOnly(m, user_id) == DictPop(m, user_id \o "_profile")

\* reset: every memory key that starts with user_id is deleted
ResetMemory(m, user_id) ==
    [k \in {x \in DOMAIN m : ~StartsWith(x, user_id)} |-> m[k]]

\* list_all: every memory entry whose key starts with user_id
UserData(m, user_id) ==
    [k \in {x \in DOMAIN m : StartsWith(x, user_id)} |-> m[k]]

\* a variant that reports the unknown action without a message
unknown_action_silent(action) == [status |-> "error"]

\* lines 124-125: the dict returned for an action that is not recognised
unknown_action(action) == [status |-> "error", message |-> "Unknown action: " \o action]

\* One call: the store after it and the dict it returns.
manage_conversation_state(st, action, user_id, data, context_type, rnd) ==
    LET m == st.memory
        c == st.contexts
        h == TrackInteraction(st.history, user_id)
    IN
    CASE action = "save_profile" ->
           [st  |-> Store(DictSet(m, user_id \o "_profile", data),
                          DictSet(c, user_id, "profile_complete"), h),
            ret |-> [status |-> "success",
                     message |-> "Profile saved to conversation memory",
                     next_suggestions |-> <<"Explore career paths", "Analyze skill gaps",
                                            "Get learning recommendations">>,
                     context |-> "profile_complete"]]
      [] action = "get_profile" ->
           [st  |-> Store(m, c, h),
            ret |-> [status |-> "success",
                     profile |-> DictGet(m, user_id \o "_profile", "{}"),
                     context |-> DictGet(c, user_id, "new_user")]]
      [] action = "set_context" ->
           [st  |-> Store(m, DictSet(c, user_id, context_type),
                          [h EXCEPT ![user_id].last_context = context_type]),
            ret |-> [status |-> "success",
                     context |-> context_type,
                     suggestions |-> context_suggestions(context_type),
                     interaction_count |-> h[user_id].interactions]]
      [] action = "get_context" ->
           [st  |-> Store(m, c, h),
            ret |-> [status |-> "success",
                     current_context |-> DictGet(c, user_id, "new_user"),
                     interaction_count |-> h[user_id].interactions,
                     last_context |-> h[user_id].last_context]]
      [] action = "save_progress" ->
           [st  |-> Store(DictSet(m, user_id \o "_progress", data),
                          DictSet(c, user_id, "learning_in_progress"), h),
            ret |-> [status |-> "success",
                     message |-> "Progress saved to conversation memory",
                     motivational_message |->
                         get_dynamic_motivation(h[user_id].interactions, rnd),
                     context |-> "learning_in_progress"]]
      [] action = "get_progress" ->
           [st  |-> Store(m, c, h),
            ret |-> [status |-> "success",
                     progress |-> DictGet(m, user_id \o "_progress", "{}")]]
      [] action = "reset" ->
           [st  |-> Store(ResetMemory(m, user_id), DictPop(c, user_id), DictPop(h, user_id)),
            ret |-> [status |-> "success", message |-> "User data reset"]]
      [] action = "list_all" ->
           [st  |-> Store(m, c, h),
            ret |-> [status |-> "success", user_data |-> UserData(m, user_id)]]
      [] OTHER ->
           [st  |-> Store(m, c, h),
            ret |-> unknown_action(action)]

-----------------------------------------------------------------------------
(* auto_chain_tools and determine_workflow_stage *)

Has(d, key) == key \in DOMAIN d

determine_workflow_stage(res) ==
    IF Has(res, "profile") THEN "profile_complete"
    ELSE IF Has(res, "career_paths") THEN "careers_explored"
    ELSE IF Has(res, "curriculum") THEN "learning_planned"
    ELSE IF Has(res, "progress") THEN "learning_active"
    ELSE "getting_started"

\* the threshold of the scholarship rule
ScholarshipThreshold == 1000

\* a variant of the scholarship rule that also fires at the threshold
ScholarshipRuleInclusive(initial_result) ==
    /\ Has(initial_result, "total_cost")
    /\ DictGet(initial_result, "total_cost", 0) >= ScholarshipThreshold

\* line 184: the condition of the scholarship rule
ScholarshipRule(initial_result) ==
    /\ Has(initial_result, "total_cost")
    /\ DictGet(initial_result, "total_cost", 0) > ScholarshipThreshold

\* a variant that stops at the first rule that fires
auto_chain_tools_first_match(initial_result, user_context) ==
    LET acts ==
            IF Has(initial_result, "career_paths") /\ user_context # "learning_planned"
            THEN <<[action |-> "generate_curriculum", priority |-> "high"]>>
            ELSE IF Has(initial_result, "curriculum") /\ ~Has(initial_result, "costs")
            THEN <<[action |-> "calculate_costs", priority |-> "medium"]>>
            ELSE IF Has(initial_result, "profile") /\ ~Has(initial_result, "career_analysis")
            THEN <<[action |-> "recommend_careers", priority |-> "high"]>>
            ELSE IF ScholarshipRule(initial_result)
            THEN <<[action |-> "find_scholarships", priority |-> "medium"]>>
            ELSE <<>>
    IN  [suggestions    |-> [i \in 1..Len(acts) |-> "suggestion"],
         auto_actions   |-> acts,
         workflow_stage |-> determine_workflow_stage(initial_result)]

auto_chain_tools(initial_result, user_context) ==
    LET r1 == IF Has(initial_result, "career_paths") /\ user_context # "learning_planned"
              THEN <<[action |-> "generate_curriculum", priority |-> "high"]>> ELSE <<>>
        r2 == IF Has(initial_result, "curriculum") /\ ~Has(initial_result, "costs")
              THEN <<[action |-> "calculate_costs", priority |-> "medium"]>> ELSE <<>>
        r3 == IF Has(initial_result, "profile") /\ ~Has(initial_result, "career_analysis")
              THEN <<[action |-> "recommend_careers", priority |-> "high"]>> ELSE <<>>
        r4 == IF ScholarshipRule(initial_result)
              THEN <<[action |-> "find_scholarships", priority |-> "medium"]>> ELSE <<>>
        s1 == IF Len(r1) > 0
              THEN <<"Ready for the next step? Let me create your personalized learning curriculum!">>
              ELSE <<>>
        s2 == IF Len(r2) > 0
              THEN <<"Want to see the investment required? I can calculate detailed costs!">>
              ELSE <<>>
        s3 == IF Len(r3) > 0
              THEN <<"Based on your profile, let me analyze the best career matches!">>
              ELSE <<>>
        s4 == IF Len(r4) > 0
              THEN <<"Those costs looking high? Let me find scholarships to reduce your investment!">>
              ELSE <<>>
    IN  [suggestions    |-> s1 \o s2 \o s3 \o s4,
         auto_actions   |-> r1 \o r2 \o r3 \o r4,
         workflow_stage |-> determine_workflow_stage(initial_result)]

-----------------------------------------------------------------------------
(* get_real_time_market_data *)

\* market_data: the three fields of the table
market_data(now) ==
    [f \in {"software_development", "data_science", "digital_marketing"} |->
        CASE f = "software_development" ->
               [avg_salary |-> "$95,000 - $150,000",
                job_growth |-> "+22% (Much faster than average)",
                trending_skills |-> <<"Python", "Cloud Computing", "AI/ML", "DevOps">>,
                hot_markets |-> <<"San Francisco", "Seattle", "Austin", "Remote">>,
                current_openings |-> "47,000+ active job postings",
                last_updated |-> now]
          [] f = "data_science" ->
               [avg_salary |-> "$85,000 - $140,000",
                job_growth |-> "+31% (Much faster than average)",
                trending_skills |-> <<"Python", "SQL", "Machine Learning", "Tableau">>,
                hot_markets |-> <<"New York", "San Francisco", "Boston", "Remote">>,
                current_openings |-> "23,000+ active job postings",
                last_updated |-> now]
          [] OTHER ->
               [avg_salary |-> "$65,000 - $95,000",
                job_growth |-> "+19% (Much faster than average)",
                trending_skills |-> <<"SEO/SEM", "Analytics", "Content Strategy", "Social Media">>,
                hot_markets |-> <<"Los Angeles", "New York", "Chicago", "Remote">>,
                current_openings |-> "31,000+ active job postings",
                last_updated |-> now]]

\* lines 242-249: the record returned for a field the table does not hold
market_data_default(now) ==
    [avg_salary |-> "Data updating...",
     job_growth |-> "Analyzing trends...",
     trending_skills |-> <<"Research in progress">>,
     hot_markets |-> <<"Data loading...">>,
     current_openings |-> "Fetching latest data...",
     last_updated |-> now]

\* the returned dict has no status key
get_real_time_market_data(field, now) ==
    DictGet(market_data(now), ReplaceChar(Lower(field), " ", "_"), market_data_default(now))

-----------------------------------------------------------------------------
(* calculate_skill_gap *)

\* a variant that cuts the second decimal off instead of rounding
RoundTenthsDown(num, den) == (1000 * num) \div den

\* round(100 * num / den, 1) in tenths, ties to even as Python's round
RoundTenths(num, den) ==
    LET q == (1000 * num) \div den
        r == (1000 * num) % den
    IN  IF 2 * r > den \/ (2 * r = den /\ q % 2 = 1) THEN q + 1 ELSE q

\* gap_percentage is held in tenths of a percent point (333 for 33.3)
calculate_skill_gap(current_skills, required_skills) ==
    LET pieces == SelectSeq(Split(current_skills, ","), LAMBDA p : Strip(p) # "")
        current_skills_list == MapSeq(pieces, LAMBDA p : Lower(Strip(p)))
        required_skills_lower == MapSeq(required_skills, Lower)
        joined == Join(current_skills_list)
        matching_skills ==
            SelectSeq(current_skills_list,
                      LAMBDA sk : \E i \in 1..Len(required_skills_lower) :
                                     Contains(sk, required_skills_lower[i]))
        missing_skills ==
            SelectSeq(required_skills, LAMBDA sk : ~Contains(joined, Lower(sk)))
        nmiss == Len(missing_skills)
        nreq  == Len(required_skills)
    IN  [matching_skills |-> matching_skills,
         missing_skills  |-> missing_skills,
         gap_percentage  |-> IF nreq > 0 THEN RoundTenths(nmiss, nreq) ELSE 0,
         readiness_level |->
             IF nreq = 0 \/ 100 * nmiss < 30 * nreq THEN "High"
             ELSE IF 100 * nmiss < 60 * nreq THEN "Medium"
             ELSE "Beginner"]

-----------------------------------------------------------------------------
(* recommend_career_paths *)

\* career_database in iteration order; gap_skills is the list handed to
\* calculate_skill_gap for the career
career_database ==
    << [category |-> "technology", career |-> "Software Developer",
        required_skills |-> <<"Programming", "Problem Solving", "Logic", "Version Control">>,
        time_to_proficiency |-> "6-12 months",
        gap_skills |-> <<"Python", "JavaScript", "Git", "SQL">>,
        remote_friendly |-> TRUE],
       [category |-> "technology", career |-> "Data Scientist",
        required_skills |-> <<"Statistics", "Python/R", "Machine Learning", "Data Visualization">>,
        time_to_proficiency |-> "8-15 months",
        gap_skills |-> <<"Python", "Statistics", "SQL", "Pandas">>,
        remote_friendly |-> TRUE],
       [category |-> "technology", career |-> "DevOps Engineer",
        required_skills |-> <<"Cloud Platforms", "Automation", "Scripting", "System Administration">>,
        time_to_proficiency |-> "10-18 months",
        gap_skills |-> <<"Docker", "AWS", "Linux", "Python">>,
        remote_friendly |-> TRUE],
       [category |-> "marketing", career |-> "Digital Marketing Specialist",
        required_skills |-> <<"SEO/SEM", "Analytics", "Content Creation", "Social Media">>,
        time_to_proficiency |-> "4-8 months",
        gap_skills |-> <<"Google Analytics", "SEO", "Facebook Ads", "Content Marketing">>,
        remote_friendly |-> TRUE],
       [category |-> "design", career |-> "UX/UI Designer",
        required_skills |-> <<"Design Software", "User Research", "Prototyping", "Visual Design">>,
        time_to_proficiency |-> "6-12 months",
        gap_skills |-> <<"Figma", "User Research", "Adobe Creative Suite", "HTML/CSS">>,
        remote_friendly |-> TRUE] >>

\* the relevance threshold of line 488
RelevanceThreshold == 30

\* lines 473-478: the points one keyword earns for one career
KeywordScore(keyword, details) ==
    (IF Contains(details.category, keyword) \/ Contains(Lower(details.career), keyword)
     THEN 20 ELSE 0)
    + (IF \E i \in 1..Len(details.required_skills) :
              Contains(Lower(details.required_skills[i]), keyword)
       THEN 15 ELSE 0)

\* lines 480-486
ExperienceBoost(experience_level, details) ==
    IF experience_level = "beginner"
         /\ (StartsWith(details.time_to_proficiency, "4-")
             \/ StartsWith(details.time_to_proficiency, "6-"))
    THEN 10
    ELSE IF experience_level = "intermediate" THEN 15
    ELSE IF experience_level = "advanced" THEN 20
    ELSE 0

MatchScore(interests, experience_level, details) ==
    LET interest_keywords == SplitWhitespace(Lower(interests))
    IN  SumSeq(MapSeq(interest_keywords, LAMBDA kw : KeywordScore(kw, details)))
        + ExperienceBoost(experience_level, details)

\* the entry stored for a matched career: the details with the computed score
CareerEntry(interests, current_skills, experience_level, details) ==
    [career              |-> details.career,
     match_score         |-> MatchScore(interests, experience_level, details),
     required_skills     |-> details.required_skills,
     time_to_proficiency |-> details.time_to_proficiency,
     skill_gap_analysis  |-> calculate_skill_gap(current_skills, details.gap_skills),
     remote_friendly     |-> details.remote_friendly]

\* lines 468-489: the careers above the threshold, in database order
matched_careers(interests, current_skills, experience_level) ==
    SelectSeq(MapSeq(career_database,
                     LAMBDA d : CareerEntry(interests, current_skills, experience_level, d)),
              LAMBDA e : e.match_score > RelevanceThreshold)

\* sorted(..., key=match_score, reverse=True): stable, so equal scores keep
\* their order; insertion of e into a sequence already sorted that way
RECURSIVE InsertByScore(_, _)
InsertByScore(sorted, e) ==
    IF Len(sorted) = 0 THEN <<e>>
    ELSE IF Head(sorted).match_score >= e.match_score
         THEN <<Head(sorted)>> \o InsertByScore(Tail(sorted), e)
         ELSE <<e>> \o sorted

RECURSIVE SortByScore(_)
SortByScore(seq) ==
    IF Len(seq) = 0 THEN <<>>
    ELSE InsertByScore(SortByScore(SubSeq(seq, 1, Len(seq) - 1)), seq[Len(seq)])

\* the slice [:3]
TopN == 3

\* a variant that takes the first three matches in database order
top_careers_unsorted(matched) == SubSeq(matched, 1, IF Len(matched) < TopN THEN Len(matched) ELSE TopN)

top_careers(matched) ==
    LET sorted == SortByScore(matched)
    IN  SubSeq(sorted, 1, IF Len(sorted) < TopN THEN Len(sorted) ELSE TopN)

\* int(career['time_to_proficiency'].split('-')[0])
ProficiencyLow(e) == ParseInt(Split(e.time_to_proficiency, "-")[1])

\* int(career['time_to_proficiency'].split('-')[1].split()[0])
ProficiencyHigh(e) == ParseInt(SplitWhitespace(Split(e.time_to_proficiency, "-")[2])[1])

\* lines 504-508; the two floor divisions by len(top_careers) are only
\* evaluated for a non-empty top_careers
market_insights(top) ==
    [trending_fields |-> <<"AI/ML", "Cybersecurity", "Cloud Computing", "Data Science">>,
     remote_opportunities |->
         ToString(Len(SelectSeq(top, LAMBDA e : e.remote_friendly)))
             \o " of " \o ToString(Len(top)) \o " careers are remote-friendly",
     avg_time_to_proficiency |->
         ToString(SumSeq(MapSeq(top, ProficiencyLow)) \div Len(top)) \o "-"
             \o ToString(SumSeq(MapSeq(top, ProficiencyHigh)) \div Len(top)) \o " months"]

\* matched_careers, top_careers and market_insights of every input, computed
\* once; insights is only read for a non-empty top
CareerMatches ==
    DictOf([x \in InterestsInputs \X SkillsInputs \X ExperienceLevels |->
               LET matched == matched_careers(x[1], x[2], x[3])
                   top     == top_careers(matched)
               IN  [matched |-> matched, top |-> top,
                    insights |-> IF Len(top) = 0 THEN <<>> ELSE market_insights(top)]],
           InterestsInputs \X SkillsInputs \X ExperienceLevels)

\* One call: the store after it, the dict it returns and the exception it
\* raises ("None" when it returns).  Building the returned dict divides by
\* len(top_careers) after both store calls have been made.
recommend_career_paths(st, interests, current_skills, experience_level, user_id) ==
    LET ctx     == manage_conversation_state(st, "get_context", user_id, "", "general", 0)
        context_info == ctx.ret
        found   == CareerMatches[<<interests, current_skills, experience_level>>]
        matched == found.matched
        top     == found.top
        chain_result == auto_chain_tools([career_paths |-> top],
                                         context_info.current_context)
        upd     == manage_conversation_state(ctx.st, "set_context", user_id, "",
                                             "careers_explored", 0)
    IN  IF Len(top) = 0
        THEN [st |-> upd.st, raised |-> "ZeroDivisionError", ret |-> [none |-> TRUE]]
        ELSE [st |-> upd.st, raised |-> "None",
              ret |-> [status |-> "success",
                       recommended_careers |-> top,
                       total_matches |-> Len(matched),
                       market_insights |-> found.insights,
                       next_suggestions |-> chain_result.suggestions,
                       auto_actions |-> chain_result.auto_actions,
                       workflow_stage |-> chain_result.workflow_stage,
                       dynamic_context |->
                           [user_experience_level |-> experience_level,
                            primary_interest |-> interests,
                            recommendation_confidence |->
                                IF Len(top) >= 2 THEN "high" ELSE "medium"]]]

-----------------------------------------------------------------------------
(* generate_learning_curriculum *)

\* curriculums: the overall duration and the phases of each template (the
\* course, certification and job-platform link lists are static text that no
\* computation reads)
curriculums ==
    [x \in {"Software Developer", "Data Scientist"} |->
        IF x = "Software Developer"
        THEN [duration |-> "6-9 months",
              phases |->
                << [phase |-> 1, title |-> "Programming Fundamentals",
                    duration |-> "6-8 weeks",
                    skills |-> <<"Variables & Data Types", "Control Structures", "Functions">>],
                   [phase |-> 2, title |-> "Web Development Basics",
                    duration |-> "8-10 weeks",
                    skills |-> <<"HTML/CSS", "JavaScript", "Responsive Design">>],
                   [phase |-> 3, title |-> "Backend Development",
                    duration |-> "10-12 weeks",
                    skills |-> <<"Node.js/Python", "Databases", "APIs">>] >>]
        ELSE [duration |-> "8-12 months",
              phases |->
                << [phase |-> 1, title |-> "Statistics & Python Fundamentals",
                    duration |-> "8-10 weeks",
                    skills |-> <<"Statistics", "Python", "Data Analysis">>],
                   [phase |-> 2, title |-> "Data Manipulation & Visualization",
                    duration |-> "10-12 weeks",
                    skills |-> <<"Pandas", "NumPy", "Matplotlib", "Seaborn">>],
                   [phase |-> 3, title |-> "Machine Learning & Advanced Analytics",
                    duration |-> "12-16 weeks",
                    skills |-> <<"Scikit-learn", "Deep Learning", "Model Deployment">>] >>]]

\* lines 743-750: the status a phase gets when current_skills is not empty
PhaseStatus(phase, skill_list) ==
    LET phase_skills == MapSeq(phase.skills, Lower)
        matching_skills ==
            SelectSeq(skill_list,
                      LAMBDA sk : \E i \in 1..Len(phase_skills) : Contains(sk, phase_skills[i]))
    IN  IF 2 * Len(matching_skills) > Len(phase_skills)
        THEN "accelerated" ELSE "standard"

\* line 747: the duration with both ends shortened by two; "none" stands for a
\* phase dict without the key
RecommendedDuration(phase, status) ==
    IF status = "accelerated"
    THEN ToString(ParseInt(Split(phase.duration, "-")[1]) - 2) \o "-"
           \o ToString(ParseInt(SplitWhitespace(Split(phase.duration, "-")[2])[1]) - 2)
           \o " weeks"
    ELSE "none"

\* one phase as the returned curriculum carries it
AdaptPhase(phase, status) ==
    [phase |-> phase.phase, title |-> phase.title, duration |-> phase.duration,
     status |-> status, recommended_duration |-> RecommendedDuration(phase, status)]

\* the phases as the returned curriculum carries them: status "none" stands
\* for a phase dict without a status key (current_skills empty)
AdaptPhases(phases, current_skills) ==
    IF current_skills = ""
    THEN MapSeq(phases, LAMBDA ph : AdaptPhase(ph, "none"))
    ELSE LET skill_list == MapSeq(Split(current_skills, ","), LAMBDA p : Lower(Strip(p)))
         IN  MapSeq(phases, LAMBDA ph : AdaptPhase(ph, PhaseStatus(ph, skill_list)))

\* time_multiplier in tenths
TimeMultiplier(time_commitment) ==
    IF Contains(time_commitment, "1-2 hours") THEN 15
    ELSE IF Contains(time_commitment, "4+ hours") THEN 8
    ELSE 10

\* f"{months * time_multiplier:.0f}": rounding to an integer, ties to even
FormatScaled(months, tenths) ==
    LET q == (months * tenths) \div 10
        r == (months * tenths) % 10
    IN  ToString(IF r > 5 \/ (r = 5 /\ q % 2 = 1) THEN q + 1 ELSE q)

AdjustedDuration(base_duration, time_commitment) ==
    FormatScaled(ParseInt(Split(base_duration, "-")[1]), TimeMultiplier(time_commitment))
        \o "-"
        \o FormatScaled(ParseInt(SplitWhitespace(Split(base_duration, "-")[2])[1]),
                        TimeMultiplier(time_commitment))
        \o " months"

\* the careers a curriculum is asked for: by the tool's callers, and by the
\* server for a message that mentions design
PlannedCareers == CareerInputs \cup {"UX Designer"}

\* lines 736-761 for every input, computed once
CurriculumPlans ==
    DictOf([x \in PlannedCareers \X SkillsInputs \X TimeInputs |->
               LET template == DictGet(curriculums, x[1], curriculums["Software Developer"])
               IN  [selected_curriculum |->
                        [duration |-> template.duration,
                         phases   |-> AdaptPhases(template.phases, x[2])],
                    adjusted_duration |-> AdjustedDuration(template.duration, x[3])]],
           PlannedCareers \X SkillsInputs \X TimeInputs)

\* One call: the store after it and the dict it returns; rnd is the draw of
\* the random.choice inside get_dynamic_motivation.
generate_learning_curriculum(st, target_career, current_skills, time_commitment, user_id, rnd) ==
    LET ctx  == manage_conversation_state(st, "get_context", user_id, "", "general", 0)
        context_info == ctx.ret
        prof == manage_conversation_state(ctx.st, "get_profile", user_id, "", "general", 0)
        plan == CurriculumPlans[<<target_career, current_skills, time_commitment>>]
        selected_curriculum == plan.selected_curriculum
        chain_result == auto_chain_tools([curriculum |-> selected_curriculum],
                                         context_info.current_context)
        upd  == manage_conversation_state(prof.st, "set_context", user_id, "",
                                          "learning_planning", 0)
    IN  [st |-> upd.st, raised |-> "None",
         ret |-> [status |-> "success",
                  target_career |-> target_career,
                  curriculum |-> selected_curriculum,
                  personalized_timeline |-> plan.adjusted_duration,
                  adaptation_notes |->
                      "Timeline adjusted for " \o time_commitment \o " commitment",
                  skill_acceleration |->
                      Len(SelectSeq(selected_curriculum.phases,
                                    LAMBDA ph : ph.status = "accelerated")),
                  next_suggestions |-> chain_result.suggestions,
                  auto_actions |-> chain_result.auto_actions,
                  dynamic_features |->
                      [adaptive_pacing |-> TRUE, skill_based_acceleration |-> TRUE,
                       real_time_course_links |-> TRUE, market_aligned_curriculum |-> TRUE],
                  motivational_insight |->
                      get_dynamic_motivation(context_info.interaction_count, rnd)]]

-----------------------------------------------------------------------------
(* track_learning_progress *)

\* total_skills_needed
TotalSkillsNeeded == 15

\* min((skills_count / 15) * 100, 100) in thousandths of a percent point,
\* truncated: the unrounded value that is stored
ProgressPercentage(skills_count) ==
    LET v == (skills_count * 100000) \div TotalSkillsNeeded
    IN  IF v > 100000 THEN 100000 ELSE v

\* round(progress_percentage, 1) in tenths of a percent point
RoundedPercentage(skills_count) ==
    IF skills_count >= TotalSkillsNeeded THEN 1000
    ELSE RoundTenths(skills_count, TotalSkillsNeeded)

\* lines 970-984
Badges(skills_count, interaction_count) ==
    (IF skills_count >= 3 THEN <<"Quick Starter">> ELSE <<>>)
    \o (IF skills_count >= 6 THEN <<"Knowledge Builder">> ELSE <<>>)
    \o (IF skills_count >= 10 THEN <<"Skill Master">> ELSE <<>>)
    \o (IF skills_count >= 15 THEN <<"Career Ready">> ELSE <<>>)
    \o (IF interaction_count >= 5 THEN <<"Engaged Learner">> ELSE <<>>)
    \o (IF interaction_count >= 10 THEN <<"SkillSphere Champion">> ELSE <<>>)

MotivationLevel(skills_count) ==
    IF skills_count >= 8 THEN "high" ELSE IF skills_count >= 4 THEN "medium" ELSE "building"

progress_motivation_messages(level, user_name) ==
    CASE level = "building" ->
           << "Every expert was once a beginner, " \o user_name
                  \o "! You're building a strong foundation.",
              "Rome wasn't built in a day, and neither are careers. You're making great progress!",
              "The journey of a thousand miles begins with a single step. You've taken several!" >>
      [] level = "medium" ->
           << "You're hitting your stride, " \o user_name
                  \o "! Momentum is building beautifully.",
              "Consistency beats perfection. Your steady progress is impressive!",
              "You're in the sweet spot of learning. Keep this energy going!" >>
      [] OTHER ->
           << "Outstanding progress, " \o user_name
                  \o "! You're becoming a force to be reckoned with.",
              "Your dedication is paying off big time. Employers will notice this level of skill!",
              "You're not just learning - you're transforming into a professional!" >>

NextMilestone(skills_count) ==
    LET next_milestone_skills ==
            IF skills_count < 3 THEN 3 ELSE IF skills_count < 6 THEN 6
            ELSE IF skills_count < 10 THEN 10 ELSE 15
        skills_to_next_milestone ==
            IF next_milestone_skills - skills_count > 0
            THEN next_milestone_skills - skills_count ELSE 0
    IN  IF skills_to_next_milestone > 0
        THEN "Complete " \o ToString(skills_to_next_milestone)
                 \o " more skills to unlock the next badge!"
        ELSE "All major milestones completed! You're career-ready!"

RECURSIVE JoinWith(_, _)
JoinWith(seq, sep) ==
    IF Len(seq) = 0 THEN ""
    ELSE IF Len(seq) = 1 THEN seq[1]
    ELSE seq[1] \o sep \o JoinWith(Tail(seq), sep)

\* json.dumps(progress_data)
JsonDumpsProgress(skills_count, badges, progress_percentage, last_update) ==
    "{skills_count: " \o ToString(skills_count)
        \o ", badges: [" \o JoinWith(badges, ", ")
        \o "], progress_percentage: " \o ToString(progress_percentage)
        \o ", last_update: " \o last_update \o "}"

\* line 958 for every input, computed once
SkillsLists ==
    DictOf([x \in CompletedSkillsInputs |->
               MapSeq(SelectSeq(Split(x, ","), LAMBDA p : Strip(p) # ""), Strip)],
           CompletedSkillsInputs)

\* One call; now is the clock reading, rnd1 and rnd2 the draws of the two
\* random choices whose result is returned (the draw inside save_progress
\* only feeds a return value that is dropped).
track_learning_progress(st, user_name, completed_skills, current_phase, user_id, now, rnd1, rnd2) ==
    LET skills_list == SkillsLists[completed_skills]
        skills_count == Len(skills_list)
        ctx == manage_conversation_state(st, "get_context", user_id, "", "general", 0)
        interaction_count == ctx.ret.interaction_count
        badges == Badges(skills_count, interaction_count)
        motivation_level == MotivationLevel(skills_count)
        progress_data == JsonDumpsProgress(skills_count, badges,
                                           ProgressPercentage(skills_count), now)
        saved == manage_conversation_state(ctx.st, "save_progress", user_id,
                                           progress_data, "general", 0)
    IN  [st |-> saved.st, raised |-> "None",
         ret |-> [status |-> "success",
                  user |-> user_name,
                  progress_percentage |-> RoundedPercentage(skills_count),
                  completed_skills |-> skills_list,
                  earned_badges |-> badges,
                  new_badges |-> Len(badges),
                  current_phase |-> current_phase,
                  motivation_message |->
                      random_choice(progress_motivation_messages(motivation_level, user_name),
                                    rnd1),
                  next_milestone |-> NextMilestone(skills_count),
                  engagement_level |-> motivation_level,
                  learning_streak |-> interaction_count,
                  achievement_summary |->
                      [total_skills |-> skills_count,
                       completion_rate |-> RoundedPercentage(skills_count),
                       badge_count |-> Len(badges),
                       engagement_rank |->
                           IF interaction_count >= 10 THEN "Top 10%"
                           ELSE IF interaction_count >= 5 THEN "Top 25%" ELSE "Active"],
                  dynamic_encouragement |->
                      get_dynamic_motivation(interaction_count, rnd2)]]

-----------------------------------------------------------------------------
(* Tools that do not touch the store *)

start_career_journey(user_name) ==
    [status |-> "success",
     welcome_message |-> "Welcome to SkillSphere, " \o user_name \o "!",
     next_steps |-> << "Share your background and current situation",
                       "Tell me about your interests and passions",
                       "Let me know your learning preferences",
                       "Describe your career goals and timeline" >>,
     conversation_started |-> TRUE]

collect_user_profile(name, current_role, experience_years, interests, learning_style, time_availability, today) ==
    [status  |-> "success",
     message |-> "Profile created successfully for " \o name \o "!",
     profile |-> [name |-> name,
                  current_role |-> current_role,
                  experience_years |-> experience_years,
                  interests |-> MapSeq(Split(interests, ","), Strip),
                  learning_style |-> learning_style,
                  time_availability |-> time_availability,
                  profile_created |-> today,
                  status |-> "success"]]

common_tech_skills ==
    << "python", "javascript", "react", "sql", "data analysis", "machine learning",
       "project management", "communication", "leadership", "problem solving", "teamwork" >>

analyze_resume_skills(resume_text) ==
    LET resume_lower == Lower(resume_text)
        found_skills == SelectSeq(common_tech_skills, LAMBDA sk : Contains(resume_lower, sk))
    IN  [status |-> "success",
         current_skills |-> found_skills,
         skill_count |-> Len(found_skills),
         recommendations |-> "Consider highlighting these skills in your career transition",
         next_step |-> "Let's identify career paths that match your skills!"]

-----------------------------------------------------------------------------
(* calculate_learning_costs as registered with the agent (the second        *)
(* definition of that name, which replaces the first) and find_scholarships *)

\* cost_data: total_cost and duration_months per career and resource type;
\* the subscription, certification and tool price lists are static text
cost_data ==
    [c \in {"Software Developer", "Data Scientist", "UX Designer"} |->
        CASE c = "Software Developer" ->
               [r \in {"online courses", "bootcamp", "university"} |->
                   CASE r = "online courses" ->
                          [total_cost |-> [min |-> 200, max |-> 800, avg |-> 400],
                           duration_months |-> 6]
                     [] r = "bootcamp" ->
                          [total_cost |-> [min |-> 8000, max |-> 20000, avg |-> 12000],
                           duration_months |-> 4]
                     [] OTHER ->
                          [total_cost |-> [min |-> 40000, max |-> 120000, avg |-> 80000],
                           duration_months |-> 48]]
          [] c = "Data Scientist" ->
               [r \in {"online courses", "bootcamp"} |->
                   IF r = "online courses"
                   THEN [total_cost |-> [min |-> 300, max |-> 1200, avg |-> 600],
                         duration_months |-> 8]
                   ELSE [total_cost |-> [min |-> 10000, max |-> 25000, avg |-> 15000],
                         duration_months |-> 6]]
          [] OTHER ->
               [r \in {"online courses"} |->
                   [total_cost |-> [min |-> 150, max |-> 600, avg |-> 300],
                    duration_months |-> 4]]]

\* num / den rounded to the nearest integer
RoundDiv(num, den) == (2 * num + den) \div (2 * den)

\* the time_multiplier table in tenths; the key is matched exactly
PaceMultiplier(time_commitment) ==
    CASE time_commitment = "1-2 hours daily" -> 15
      [] time_commitment = "2-3 hours daily" -> 10
      [] time_commitment = "3-4 hours daily" -> 8
      [] time_commitment = "4+ hours daily" -> 6
      [] OTHER -> 10

_get_salary_increase(career) ==
    CASE career = "Software Developer" -> "$25,000 - $50,000"
      [] career = "Data Scientist" -> "$30,000 - $60,000"
      [] career = "UX Designer" -> "$20,000 - $40,000"
      [] OTHER -> "$15,000 - $35,000"

\* investment / (avg_increase / 12) with one decimal, in tenths of a month
_calculate_break_even(investment, career) ==
    LET avg_increase == CASE career = "Software Developer" -> 37500
                          [] career = "Data Scientist" -> 45000
                          [] career = "UX Designer" -> 30000
                          [] OTHER -> 25000
    IN  RoundDiv(investment * 120, avg_increase)

\* money is held in cents, durations in tenths of a month
calculate_learning_costs(target_career, learning_resources, time_commitment) ==
    LET career_data == DictGet(cost_data, target_career, EmptyDict)
        learning_data == DictGet(career_data, learning_resources, EmptyDict)
    IN  IF DOMAIN learning_data = {}
        THEN [status  |-> "error",
              message |-> "Cost data not available for " \o target_career
                              \o " with " \o learning_resources]
        ELSE
        LET total_cost == learning_data.total_cost
            duration_months == learning_data.duration_months
            adjusted_duration == duration_months * PaceMultiplier(time_commitment)
        IN  [status |-> "success",
             career |-> target_career,
             learning_type |-> learning_resources,
             duration_analysis |->
                 [standard_duration_months |-> duration_months,
                  your_pace_duration_months |-> adjusted_duration,
                  time_commitment |-> time_commitment],
             cost_breakdown |->
                 [total_range |-> [minimum |-> total_cost.min, maximum |-> total_cost.max,
                                   average |-> total_cost.avg],
                  time_based_costs |->
                      [monthly_average |-> RoundDiv(total_cost.avg * 100, duration_months),
                       weekly_average  |-> RoundDiv(total_cost.avg * 1000, duration_months * 43),
                       daily_average   |-> RoundDiv(total_cost.avg * 100, duration_months * 30),
                       your_pace_monthly |->
                           RoundDiv(total_cost.avg * 1000, adjusted_duration)]],
             detailed_costs |-> "price lists",
             cost_optimization_tips |->
                 "At your pace (" \o time_commitment \o "), you'll spend ~$"
                     \o ToString(RoundDiv(total_cost.avg * 10, adjusted_duration)) \o "/month",
             roi_analysis |->
                 [investment |-> total_cost.avg,
                  time_to_complete |-> adjusted_duration,
                  potential_salary_increase |-> _get_salary_increase(target_career),
                  break_even_time |-> _calculate_break_even(total_cost.avg, target_career)]]

\* the scholarship table: names of the entries per career
scholarships ==
    [c \in {"Software Developer", "Data Scientist"} |->
        IF c = "Software Developer"
        THEN <<"Google Developer Scholarship", "Coursera Financial Aid">>
        ELSE <<"Kaggle Learn Scholarship">>]

\* a variant that reports an unlisted career with a status of its own
find_scholarships_not_found(target_career, user_background) ==
    IF target_career \in DOMAIN scholarships
    THEN [status |-> "success",
          career |-> target_career,
          available_scholarships |-> scholarships[target_career],
          total_opportunities |-> Len(scholarships[target_career])]
    ELSE [status |-> "not_found", career |-> target_career]

find_scholarships(target_career, user_background) ==
    LET career_scholarships ==
            DictGet(scholarships, target_career, <<"General Career Development Grant">>)
    IN  [status |-> "success",
         career |-> target_career,
         available_scholarships |-> career_scholarships,
         total_opportunities |-> Len(career_scholarships),
         application_tips |-> << "Apply early and often",
                                 "Tailor your application to each scholarship",
                                 "Highlight your commitment to the career change",
                                 "Get letters of recommendation" >>]

-----------------------------------------------------------------------------
(* The state machine: one action per tool invocation *)

NoResult == [none |-> TRUE]

NoCall == [tool |-> "none", user_id |-> "", args |-> <<>>]

\* the two calls that overlap
Writers == {1, 2}

\* no attribute of the function object is set (line 38 finds none)
NoAttrs == [memory |-> 0, contexts |-> 0, interaction_history |-> 0]

\* a call that has not executed its first line
NotStarted ==
    [pc |-> "l38", memory |-> 0, contexts |-> 0, history |-> 0, entry |-> 0,
     interactions |-> 0, outcome |-> "running"]

\* the tools called one after the other: the store is held in memory,
\* contexts and history, and no overlapping call is under way
Sequential ==
    /\ memory = EmptyDict
    /\ contexts = EmptyDict
    /\ history = EmptyDict
    /\ result = NoResult
    /\ raised = "None"
    /\ call = NoCall

Init ==
    /\ Sequential
    /\ attrs = NoAttrs
    /\ heap = <<>>
    /\ threads = [t \in Writers |-> NotStarted]

Current == Store(memory, contexts, history)

\* the interaction count stored for a user, 0 when there is no entry
Interactions(h, user_id) == IF user_id \in DOMAIN h THEN h[user_id].interactions ELSE 0

\* the outcome of a call that went through the store becomes the new state
Commit(out, user_id) ==
    /\ Interactions(out.st.history, user_id) <= MaxInteractions
    /\ memory' = out.st.memory
    /\ contexts' = out.st.contexts
    /\ history' = out.st.history
    /\ result' = out.ret
    /\ raised' = out.raised

\* the outcome of a tool that has no store access
Return(ret) ==
    /\ result' = ret
    /\ raised' = "None"
    /\ UNCHANGED <<memory, contexts, history>>

\* the invocation a step made
Called(tool, user_id, args) ==
    /\ call' = [tool |-> tool, user_id |-> user_id, args |-> args]
    /\ UNCHANGED <<attrs, heap, threads>>

\* data is read by the two save actions, context_type by set_context and the
\* random draw by save_progress; elsewhere the parameter defaults are passed
DataFor(action) ==
    IF action \in {"save_profile", "save_progress"} THEN DataInputs ELSE {""}

ContextTypesFor(action) == IF action = "set_context" THEN ContextTypes ELSE {"general"}

DrawsFor(action) == IF action = "save_progress" THEN RandomDraws ELSE {0}

ManageState(user_id) ==
    \E action \in Actions :
    \E data \in DataFor(action), context_type \in ContextTypesFor(action),
       rnd \in DrawsFor(action) :
        LET out == manage_conversation_state(Current, action, user_id, data,
                                             context_type, rnd)
        IN  /\ Called("manage_conversation_state", user_id, <<action, data, context_type>>)
            /\ Commit([st |-> out.st, ret |-> out.ret, raised |-> "None"], user_id)

RecommendCareerPaths(user_id) ==
    \E interests \in InterestsInputs, current_skills \in SkillsInputs,
       experience_level \in ExperienceLevels :
        /\ Called("recommend_career_paths", user_id, <<interests, experience_level>>)
        /\ Commit(recommend_career_paths(Current, interests, current_skills,
                                         experience_level, user_id), user_id)

GenerateLearningCurriculum(user_id) ==
    \E target_career \in CareerInputs, current_skills \in SkillsInputs,
       time_commitment \in TimeInputs, rnd \in RandomDraws :
        /\ Called("generate_learning_curriculum", user_id, <<target_career>>)
        /\ Commit(generate_learning_curriculum(Current, target_career, current_skills,
                                               time_commitment, user_id, rnd), user_id)

TrackLearningProgress(user_id) ==
    \E user_name \in NameInputs, completed_skills \in CompletedSkillsInputs,
       now \in Clock, rnd1 \in RandomDraws, rnd2 \in RandomDraws :
        /\ Called("track_learning_progress", user_id, <<completed_skills>>)
        /\ Commit(track_learning_progress(Current, user_name, completed_skills, 1,
                                          user_id, now, rnd1, rnd2), user_id)

\* the results of the tools without store access, computed once per input
ProfileResults ==
    DictOf([x \in NameInputs \X InterestsInputs \X Clock |->
               collect_user_profile(x[1], "student", 0, x[2], "visual", "2-3 hours daily", x[3])],
           NameInputs \X InterestsInputs \X Clock)

ResumeResults == DictOf([x \in SkillsInputs |-> analyze_resume_skills(x)], SkillsInputs)

CostResults ==
    DictOf([x \in CareerInputs \X ResourceInputs \X CostTimeInputs |->
               calculate_learning_costs(x[1], x[2], x[3])],
           CareerInputs \X ResourceInputs \X CostTimeInputs)

ScholarshipResults ==
    DictOf([x \in CareerInputs |-> find_scholarships(x, "general")], CareerInputs)

StartCareerJourney ==
    \E user_name \in NameInputs :
        /\ Called("start_career_journey", "", <<user_name>>)
        /\ Return(start_career_journey(user_name))

CollectUserProfile ==
    \E name \in NameInputs, interests \in InterestsInputs, today \in Clock :
        /\ Called("collect_user_profile", "", <<name, interests>>)
        /\ Return(ProfileResults[<<name, interests, today>>])

AnalyzeResumeSkills ==
    \E resume_text \in SkillsInputs :
        /\ Called("analyze_resume_skills", "", <<resume_text>>)
        /\ Return(ResumeResults[resume_text])

CalculateLearningCosts ==
    \E target_career \in CareerInputs, learning_resources \in ResourceInputs,
       time_commitment \in CostTimeInputs :
        /\ Called("calculate_learning_costs", "", <<target_career, learning_resources>>)
        /\ Return(CostResults[<<target_career, learning_resources, time_commitment>>])

FindScholarships ==
    \E target_career \in CareerInputs :
        /\ Called("find_scholarships", "", <<target_career>>)
        /\ Return(ScholarshipResults[target_career])

Next ==
    \/ \E user_id \in Users : ManageState(user_id)
    \/ \E user_id \in Users : RecommendCareerPaths(user_id)
    \/ \E user_id \in Users : GenerateLearningCurriculum(user_id)
    \/ \E user_id \in Users : TrackLearningProgress(user_id)
    \/ StartCareerJourney
    \/ CollectUserProfile
    \/ AnalyzeResumeSkills
    \/ CalculateLearningCosts
    \/ FindScholarships

Spec == Init /\ [][Next]_vars

\* the session store alone, called directly for two user ids
NextStore ==
    \E user_id \in StoreUsers :
        /\ ManageState(user_id)
        /\ Interactions(history', user_id) <= MaxStoreInteractions

SpecStore == Init /\ [][NextStore]_vars

-----------------------------------------------------------------------------
(* The functions of agent.py called on their own *)

GapResults ==
    DictOf([x \in GapCurrentInputs \X GapRequiredInputs |-> calculate_skill_gap(x[1], x[2])],
           GapCurrentInputs \X GapRequiredInputs)

MarketResults ==
    DictOf([x \in FieldInputs \X ClockMinutes |-> get_real_time_market_data(x[1], x[2])],
           FieldInputs \X ClockMinutes)

AutoChainTools ==
    \E initial_result \in ChainResults, user_context \in ChainContexts :
        /\ Called("auto_chain_tools", "", <<initial_result, user_context>>)
        /\ Return(auto_chain_tools(initial_result, user_context))

CalculateSkillGap ==
    \E current_skills \in GapCurrentInputs, required_skills \in GapRequiredInputs :
        /\ Called("calculate_skill_gap", "", <<current_skills, required_skills>>)
        /\ Return(GapResults[<<current_skills, required_skills>>])

GetDynamicMotivation ==
    \E interaction_count \in MotivationCounts, rnd \in PoolDraws :
        /\ Called("get_dynamic_motivation", "", <<interaction_count, rnd>>)
        /\ Return(get_dynamic_motivation(interaction_count, rnd))

GetRealTimeMarketData ==
    \E field \in FieldInputs, now \in ClockMinutes :
        /\ Called("get_real_time_market_data", "", <<field>>)
        /\ Return(MarketResults[<<field, now>>])

\* the helper functions, and the tools that look a career up in a table
NextFunctions ==
    \/ AutoChainTools
    \/ CalculateSkillGap
    \/ GetDynamicMotivation
    \/ GetRealTimeMarketData
    \/ \E user_id \in Users : GenerateLearningCurriculum(user_id)
    \/ CalculateLearningCosts
    \/ FindScholarships

SpecFunctions == Init /\ [][NextFunctions]_vars

-----------------------------------------------------------------------------
(* Vocabulary of the properties *)

EmptyStore == Store(EmptyDict, EmptyDict, EmptyDict)

\* the store holds nothing under the user's own keys
SessionEmpty(user_id) ==
    /\ user_id \notin DOMAIN history
    /\ user_id \notin DOMAIN contexts
    /\ (user_id \o "_profile") \notin DOMAIN memory
    /\ (user_id \o "_progress") \notin DOMAIN memory

\* c describes a direct call of the store with the given action
IsStoreCall(c, action) ==
    c.tool = "manage_conversation_state" /\ c.args[1] = action

\* the last call handed a result record back to its caller
Returned == call.tool # "none" /\ raised = "None"

\* the stage a read reports for the user
StageOf(c, user_id) == DictGet(c, user_id, "new_user")

\* NEW, PROFILE_COMPLETE, CAREERS_EXPLORED, LEARNING_PLANNED, LEARNING_ACTIVE in
\* the spelling of get_context, determine_workflow_stage and auto_chain_tools
DefinedStages ==
    {"new_user", "profile_complete", "careers_explored", "learning_planned",
     "learning_active"}

\* the tools that go through the store
SessionTools ==
    {"manage_conversation_state", "recommend_career_paths",
     "generate_learning_curriculum", "track_learning_progress"}

ReadActions == {"get_context", "get_profile", "get_progress", "list_all"}

-----------------------------------------------------------------------------
(* C1 *)

\* C1 (as amended): the first read for a user the store holds nothing for
\* reports stage new_user and last context general with interaction count 1,
\* the read itself being counted (get_context), the empty profile "{}" with
\* stage new_user (get_profile), and the empty progress "{}" (get_progress).
C1_FirstRead ==
    [][ \A u \in StoreUsers :
          (SessionEmpty(u) /\ call'.tool = "manage_conversation_state"
                           /\ call'.user_id = u)
          => /\ call'.args[1] = "get_context" =>
                  result' = [status |-> "success", current_context |-> "new_user",
                             interaction_count |-> 1, last_context |-> "general"]
             /\ call'.args[1] = "get_profile" =>
                  result' = [status |-> "success", profile |-> "{}",
                             context |-> "new_user"]
             /\ call'.args[1] = "get_progress" =>
                  result' = [status |-> "success", progress |-> "{}"] ]_vars

\* C1 as stated: the first read reports stage new_user and interaction count 0.
C1_FirstReadCountZero ==
    [][ \A u \in StoreUsers :
          (SessionEmpty(u) /\ call'.user_id = u /\ IsStoreCall(call', "get_context"))
          => /\ result'.current_context = "new_user"
             /\ result'.interaction_count = 0 ]_vars

\* a first get_context for u2 while u has a profile and a history entry
C1_Witness ==
    /\ IsStoreCall(call, "get_context") /\ call.user_id = "u2"
    /\ result.interaction_count = 1 /\ result.current_context = "new_user"
    /\ "u_profile" \in DOMAIN memory /\ "u" \in DOMAIN history

-----------------------------------------------------------------------------
(* C2 *)

\* C2: right after reset(u) the store holds nothing under u's keys, every read
\* for u returns what it returns on a store that never saw any user, and a
\* second reset(u) leaves the store as the first one left it.
C2_ResetForgets ==
    \A u \in StoreUsers :
        (IsStoreCall(call, "reset") /\ call.user_id = u)
        => /\ SessionEmpty(u)
           /\ \A a \in ReadActions :
                 manage_conversation_state(Current, a, u, "", "general", 0).ret
                   = manage_conversation_state(EmptyStore, a, u, "", "general", 0).ret
           /\ manage_conversation_state(Current, "reset", u, "", "general", 0).st = Current

\* reset(u2) has run while u still has a profile, a stage and a history entry
C2_Witness ==
    /\ IsStoreCall(call, "reset") /\ call.user_id = "u2"
    /\ "u_profile" \in DOMAIN memory
    /\ "u" \in DOMAIN contexts /\ "u" \in DOMAIN history

-----------------------------------------------------------------------------
(* C3 *)

\* C3: every invocation of a tool that goes through the store and returns (a
\* reset, which drops the count, set aside) raises the user's interaction count
\* by exactly 1.
C3_OnePerInvocation ==
    [][ \A u \in Users :
          (call'.tool \in SessionTools /\ call'.user_id = u
               /\ raised' = "None" /\ ~IsStoreCall(call', "reset"))
          => Interactions(history', u) = Interactions(history, u) + 1 ]_vars

-----------------------------------------------------------------------------
(* C4 *)

\* C4: a user without a history entry has count 0; every direct store call
\* other than reset raises the user's count by exactly 1, so N calls after a
\* fresh start give N; no step other than a reset of the user lowers the
\* count; and the count get_context and set_context report is the stored one.
C4_CountsCalls ==
    [][ \A u \in Users :
          /\ (call'.tool = "manage_conversation_state" /\ call'.user_id = u
                  /\ call'.args[1] # "reset")
             => Interactions(history', u) = Interactions(history, u) + 1
          /\ ~(IsStoreCall(call', "reset") /\ call'.user_id = u)
             => Interactions(history', u) >= Interactions(history, u)
          /\ (call'.user_id = u
                  /\ (IsStoreCall(call', "get_context") \/ IsStoreCall(call', "set_context")))
             => result'.interaction_count = Interactions(history', u) ]_vars

\* the third recorded call for u is a get_context and reports 3
C4_Witness ==
    /\ IsStoreCall(call, "get_context") /\ call.user_id = "u"
    /\ result.interaction_count = 3 /\ history["u"].interactions = 3

-----------------------------------------------------------------------------
(* C5 *)

\* C5: the stage stored for every user is one of the five defined stages.
C5_StageDefined == \A u \in DOMAIN contexts : contexts[u] \in DefinedStages

-----------------------------------------------------------------------------
(* C6 *)

\* C6: collect_user_profile, invoked while the store holds nothing for the
\* user, leaves the user at stage profile_complete with interaction count 1.
C6_CollectSetsStage ==
    [][ \A u \in Users :
          (SessionEmpty(u) /\ call'.tool = "collect_user_profile")
          => /\ StageOf(contexts', u) = "profile_complete"
             /\ Interactions(history', u) = 1 ]_vars

-----------------------------------------------------------------------------
(* C7 *)

HasAutoAction(res, action, priority) ==
    /\ "auto_actions" \in DOMAIN res
    /\ \E i \in 1..Len(res.auto_actions) :
          res.auto_actions[i] = [action |-> action, priority |-> priority]

\* C7: recommend_career_paths invoked directly after collect_user_profile for a
\* new user stores stage careers_explored, returns auto-actions that include
\* generate_curriculum at priority high, and leaves the interaction count at 2.
C7_RecommendAfterProfile ==
    [][ \A u \in Users :
          (call.tool = "collect_user_profile" /\ Interactions(history, u) = 0
               /\ call'.tool = "recommend_career_paths" /\ call'.user_id = u)
          => /\ StageOf(contexts', u) = "careers_explored"
             /\ raised' = "None"
             /\ HasAutoAction(result', "generate_curriculum", "high")
             /\ Interactions(history', u) = 2 ]_vars

-----------------------------------------------------------------------------
(* C8 *)

\* C8: after generate_learning_curriculum the stage stored for the user is
\* learning_planned, the value auto_chain_tools compares the stage with and
\* determine_workflow_stage returns for a curriculum result.
C8_CurriculumStage ==
    call.tool = "generate_learning_curriculum"
    => /\ StageOf(contexts, call.user_id) = "learning_planned"
       /\ StageOf(contexts, call.user_id) = determine_workflow_stage(result)

-----------------------------------------------------------------------------
(* C9 *)

\* C9: recommend_career_paths hands a result record with a status back to its
\* caller for every input; it never raises.
C9_RecommendNeverRaises ==
    call.tool = "recommend_career_paths"
    => raised = "None" /\ "status" \in DOMAIN result

-----------------------------------------------------------------------------
(* C10 *)

\* the calls whose success result carries a message
MessageOnSuccess(c) ==
    \/ c.tool = "collect_user_profile"
    \/ IsStoreCall(c, "save_profile")
    \/ IsStoreCall(c, "save_progress")
    \/ IsStoreCall(c, "reset")

\* C10 (as amended): every returned result record has a status that is success
\* or error; it has a message exactly when the status is error or the call is
\* collect_user_profile, save_profile, save_progress or reset.
C10_StatusAndMessage ==
    Returned
    => /\ "status" \in DOMAIN result
       /\ result.status \in {"success", "error"}
       /\ ("message" \in DOMAIN result)
             <=> (result.status = "error" \/ MessageOnSuccess(call))

\* C10 as stated: every returned result record has a status that is success or
\* error and a message.
C10_AlwaysMessage ==
    Returned
    => /\ "status" \in DOMAIN result
       /\ result.status \in {"success", "error"}
       /\ "message" \in DOMAIN result

\* an error result with its message, from the cost tool
C10_Witness ==
    /\ Returned /\ call.tool = "calculate_learning_costs"
    /\ result.status = "error" /\ "message" \in DOMAIN result

-----------------------------------------------------------------------------
(* Reads of a session, used by C11 to C13 *)

\* the store after the step
Post == Store(memory', contexts', history')

\* what get_profile, get_progress and get_context return for the user on st
ReadProfile(st, user_id) ==
    manage_conversation_state(st, "get_profile", user_id, "", "general", 0).ret.profile

ReadProgress(st, user_id) ==
    manage_conversation_state(st, "get_progress", user_id, "", "general", 0).ret.progress

ReadStage(st, user_id) ==
    manage_conversation_state(st, "get_context", user_id, "", "general", 0).ret.current_context

\* the step is a direct store call with this action for this user
StoreStep(action, user_id) ==
    IsStoreCall(call', action) /\ call'.user_id = user_id

\* the action names manage_conversation_state dispatches on
RecognisedActions ==
    {"save_profile", "get_profile", "set_context", "get_context", "save_progress",
     "get_progress", "reset", "list_all"}

-----------------------------------------------------------------------------
(* C11 *)

\* C11 (as amended): save_profile overwrites the user's profile, leaves the
\* progress unchanged and sets the stage to profile_complete; save_progress
\* overwrites the progress, leaves the profile unchanged and sets the stage to
\* learning_in_progress; set_context sets the stage and leaves profile and
\* progress unchanged.
C11_WritesFrame ==
    [][ \A u \in StoreUsers :
          /\ StoreStep("save_profile", u)
             => /\ ReadProfile(Post, u) = call'.args[2]
                /\ ReadProgress(Post, u) = ReadProgress(Current, u)
                /\ ReadStage(Post, u) = "profile_complete"
          /\ StoreStep("save_progress", u)
             => /\ ReadProgress(Post, u) = call'.args[2]
                /\ ReadProfile(Post, u) = ReadProfile(Current, u)
                /\ ReadStage(Post, u) = "learning_in_progress"
          /\ StoreStep("set_context", u)
             => /\ ReadStage(Post, u) = call'.args[3]
                /\ ReadProfile(Post, u) = ReadProfile(Current, u)
                /\ ReadProgress(Post, u) = ReadProgress(Current, u) ]_vars

\* C11 as stated: each of the three writes leaves the other two of profile,
\* progress and stage unchanged.
C11_IndependentWrites ==
    [][ \A u \in StoreUsers :
          /\ StoreStep("save_profile", u)
             => /\ ReadProgress(Post, u) = ReadProgress(Current, u)
                /\ ReadStage(Post, u) = ReadStage(Current, u)
          /\ StoreStep("save_progress", u)
             => /\ ReadProfile(Post, u) = ReadProfile(Current, u)
                /\ ReadStage(Post, u) = ReadStage(Current, u)
          /\ StoreStep("set_context", u)
             => /\ ReadProfile(Post, u) = ReadProfile(Current, u)
                /\ ReadProgress(Post, u) = ReadProgress(Current, u) ]_vars

\* save_profile has run for u2, whose progress is still the one saved before
C11_Witness ==
    /\ IsStoreCall(call, "save_profile") /\ call.user_id = "u2"
    /\ "u2_progress" \in DOMAIN memory /\ memory["u2_profile"] = call.args[2]
    /\ contexts["u2"] = "profile_complete"

-----------------------------------------------------------------------------
(* C12 *)

\* C12: a save_profile makes get_profile return exactly the data just saved,
\* whatever was saved before; the value get_profile would return changes in no
\* step other than a save_profile for the user or a reset; get_profile returns
\* that value; the same holds of save_progress and get_progress; and a profile
\* or progress that is not stored, as for a new user or after the user's reset,
\* reads back as "{}".
C12_LastWriteWins ==
    [][ \A u \in StoreUsers :
          /\ StoreStep("save_profile", u) => ReadProfile(Post, u) = call'.args[2]
          /\ StoreStep("save_progress", u) => ReadProgress(Post, u) = call'.args[2]
          /\ ~(StoreStep("save_profile", u) \/ IsStoreCall(call', "reset"))
             => ReadProfile(Post, u) = ReadProfile(Current, u)
          /\ ~(StoreStep("save_progress", u) \/ IsStoreCall(call', "reset"))
             => ReadProgress(Post, u) = ReadProgress(Current, u)
          /\ StoreStep("get_profile", u) => result'.profile = ReadProfile(Current, u)
          /\ StoreStep("get_progress", u) => result'.progress = ReadProgress(Current, u)
          /\ u \notin DOMAIN history
             => ReadProfile(Current, u) = "{}" /\ ReadProgress(Current, u) = "{}"
          /\ StoreStep("reset", u)
             => ReadProfile(Post, u) = "{}" /\ ReadProgress(Post, u) = "{}" ]_vars

\* get_profile returns d2 as the second call for u, after a save_profile
C12_Witness ==
    /\ IsStoreCall(call, "get_profile") /\ call.user_id = "u"
    /\ result.profile = "d2" /\ history["u"].interactions = 2

-----------------------------------------------------------------------------
(* C13 *)

\* C13: a store call whose action is none of the recognised ones returns a
\* result with status error and a message, does not raise, and leaves the
\* profile, the progress and the stage of every user unchanged.
C13_UnknownAction ==
    [][ \A u \in StoreUsers :
          (call'.tool = "manage_conversation_state" /\ call'.user_id = u
               /\ call'.args[1] \notin RecognisedActions)
          => /\ raised' = "None"
             /\ result'.status = "error"
             /\ "message" \in DOMAIN result'
             /\ memory' = memory /\ contexts' = contexts
             /\ \A v \in StoreUsers :
                   /\ ReadProfile(Post, v) = ReadProfile(Current, v)
                   /\ ReadProgress(Post, v) = ReadProgress(Current, v)
                   /\ ReadStage(Post, v) = ReadStage(Current, v) ]_vars

\* the unknown action delete_all was answered while u has a profile and a stage
C13_Witness ==
    /\ IsStoreCall(call, "delete_all") /\ call.user_id = "u"
    /\ result.status = "error" /\ "u_profile" \in DOMAIN memory
    /\ contexts["u"] = "profile_complete"

-----------------------------------------------------------------------------
(* C14 *)

\* the last call looked up a career (or field) its table does not hold
LookupMiss(tool, table) ==
    call.tool = tool /\ call.args[1] \notin DOMAIN table

MarketMiss ==
    /\ call.tool = "get_real_time_market_data"
    /\ ReplaceChar(Lower(call.args[1]), " ", "_") \notin DOMAIN market_data("")

-----------------------------------------------------------------------------
(* C15 *)

\* the last call was auto_chain_tools; its two arguments
ChainCalled == call.tool = "auto_chain_tools"

ChainResult == call.args[1]

ChainContext == call.args[2]

\* the four proposals in rule order, each with the condition the rule tests
\* on the arguments of the last call
RuleOrder ==
    << [action |-> "generate_curriculum", priority |-> "high",
        fires |-> "career_paths" \in DOMAIN ChainResult /\ ChainContext # "learning_planned"],
       [action |-> "calculate_costs", priority |-> "medium",
        fires |-> "curriculum" \in DOMAIN ChainResult /\ "costs" \notin DOMAIN ChainResult],
       [action |-> "recommend_careers", priority |-> "high",
        fires |-> "profile" \in DOMAIN ChainResult
                    /\ "career_analysis" \notin DOMAIN ChainResult],
       [action |-> "find_scholarships", priority |-> "medium",
        fires |-> "total_cost" \in DOMAIN ChainResult /\ ChainResult.total_cost > 1000] >>

\* C15: each of the four proposals is in the action list iff its own rule
\* fires, whatever the other rules do; the proposals that are made stand in
\* rule order, each once; the suggestion list is as long as the action list;
\* and both are empty when no rule fires.
C15_RulesIndependent ==
    ChainCalled
    => /\ \A i \in 1..Len(RuleOrder) :
             HasAutoAction(result, RuleOrder[i].action, RuleOrder[i].priority)
                 <=> RuleOrder[i].fires
       /\ result.auto_actions
             = MapSeq(SelectSeq(RuleOrder, LAMBDA r : r.fires),
                      LAMBDA r : [action |-> r.action, priority |-> r.priority])
       /\ Len(result.suggestions) = Len(result.auto_actions)
       /\ (\A i \in 1..Len(RuleOrder) : ~RuleOrder[i].fires)
             => result.suggestions = <<>> /\ result.auto_actions = <<>>

\* all four rules fired on one result
C15_Witness ==
    /\ ChainCalled /\ Len(result.auto_actions) = 4 /\ Len(result.suggestions) = 4
    /\ result.auto_actions[1].action = "generate_curriculum"
    /\ result.auto_actions[4].action = "find_scholarships"

-----------------------------------------------------------------------------
(* C16 *)

\* C16: a result with total_cost 1500 gets a find_scholarships entry of
\* priority medium at every stage, learning_planned included; a result with
\* total_cost 50 or exactly 1000 gets none.
C16_StrictThreshold ==
    (ChainCalled /\ "total_cost" \in DOMAIN ChainResult)
    => /\ ChainResult.total_cost = 1500
          => HasAutoAction(result, "find_scholarships", "medium")
       /\ ChainResult.total_cost \in {50, 1000}
          => \A i \in 1..Len(result.auto_actions) :
                 result.auto_actions[i].action # "find_scholarships"

\* total_cost exactly 1000 at stage learning_planned: nothing is proposed
C16_Witness ==
    /\ ChainCalled /\ DOMAIN ChainResult = {"total_cost"}
    /\ ChainResult.total_cost = 1000 /\ ChainContext = "learning_planned"
    /\ result.auto_actions = <<>>

-----------------------------------------------------------------------------
(* C19 *)

\* C19: the stage resolved for a result is profile_complete if it has a
\* profile, else careers_explored if it has a career list, else
\* learning_planned if it has a curriculum, else learning_active if it has a
\* progress, and otherwise the stage the user already had.
C19_StageResolver ==
    ChainCalled
    => result.workflow_stage =
          (IF "profile" \in DOMAIN ChainResult THEN "profile_complete"
           ELSE IF "career_paths" \in DOMAIN ChainResult THEN "careers_explored"
           ELSE IF "curriculum" \in DOMAIN ChainResult THEN "learning_planned"
           ELSE IF "progress" \in DOMAIN ChainResult THEN "learning_active"
           ELSE ChainContext)

-----------------------------------------------------------------------------
(* C17 *)

GapCalled == call.tool = "calculate_skill_gap"

\* |x|
Abs(x) == IF x < 0 THEN -x ELSE x

\* C17: gap_percentage (in tenths of a point) is 100 times the number of
\* missing skills over the number of required skills, rounded to the nearest
\* tenth, between 0 and 100, and 0 for an empty required list; readiness_level
\* is High iff the gap is below 30, Medium iff it is at least 30 and below 60,
\* Beginner otherwise; ("Python, SQL", [Python, SQL, Docker]) gives 33.3 and
\* Medium, ("", []) gives 0 and High.
C17_GapPercentage ==
    GapCalled
    => LET nreq  == Len(call.args[2])
           nmiss == Len(result.missing_skills)
           gap   == result.gap_percentage
       IN  /\ gap >= 0 /\ gap <= 1000
           /\ nreq = 0 => gap = 0
           /\ nreq > 0 => 2 * Abs(gap * nreq - 1000 * nmiss) <= nreq
           /\ result.readiness_level = "High" <=> gap < 300
           /\ result.readiness_level = "Medium" <=> (gap >= 300 /\ gap < 600)
           /\ result.readiness_level = "Beginner" <=> gap >= 600
           /\ call.args = <<"Python, SQL", <<"Python", "SQL", "Docker">> >>
                 => gap = 333 /\ result.readiness_level = "Medium"
           /\ call.args = <<"", <<>> >>
                 => gap = 0 /\ result.readiness_level = "High"

\* two of three required skills are missing: 66.7 and Beginner
C17_Witness ==
    /\ GapCalled /\ Len(call.args[2]) = 3 /\ Len(result.missing_skills) = 2
    /\ result.gap_percentage = 667 /\ result.readiness_level = "Beginner"

-----------------------------------------------------------------------------
(* C18 *)

\* the comma-separated tokens of current_skills, stripped and lower-cased
Tokens(current_skills) ==
    MapSeq(SelectSeq(Split(current_skills, ","), LAMBDA p : Strip(p) # ""),
           LAMBDA p : Lower(Strip(p)))

\* some single token is a substring of the skill or the skill of the token
TokenMatches(current_skills, skill) ==
    \E i \in 1..Len(Tokens(current_skills)) :
        \/ Contains(Lower(skill), Tokens(current_skills)[i])
        \/ Contains(Tokens(current_skills)[i], Lower(skill))

\* C18: a required skill is left out of missing_skills exactly when some
\* single token of current_skills is a substring of it or it is a substring of
\* that token, so every required skill is either matching or missing.
C18_SubstringEitherWay ==
    GapCalled
    => \A i \in 1..Len(call.args[2]) :
          (\A j \in 1..Len(result.missing_skills) :
               result.missing_skills[j] # call.args[2][i])
          <=> TokenMatches(call.args[1], call.args[2][i])

-----------------------------------------------------------------------------
(* C20 *)

MotivationCalled == call.tool = "get_dynamic_motivation"

\* the elements of a sequence
Range(seq) == {seq[i] : i \in 1..Len(seq)}

\* C20: the standard pool has 10 entries and the advanced pool 4; for a count
\* of at most 5 the message returned is in the standard pool and not in the
\* advanced one, for a count above 5 it is in the advanced pool of that count
\* and not in the standard one, whatever the random draw.
C20_PoolByCount ==
    MotivationCalled
    => LET interaction_count == call.args[1]
           standard == Range(motivation_messages)
           advanced == Range(advanced_messages(interaction_count))
       IN  /\ Cardinality(standard) = 10 /\ Cardinality(advanced) = 4
           /\ interaction_count <= 5 => result \in standard \ advanced
           /\ interaction_count > 5 => result \in advanced \ standard

\* the message that quotes the count, returned at the sixth interaction
C20_Witness ==
    /\ MotivationCalled /\ call.args[1] = 6
    /\ result = advanced_messages(6)[1]


-----------------------------------------------------------------------------
(* C24 *)

\* the keys under which save_profile and save_progress store the user's data
OwnKeys(user_id) == {user_id \o "_profile", user_id \o "_progress"}

\* C24: a store call for one user id, reset included, changes the stored
\* profile, progress, stage and interaction count of no other user id, also
\* when one id is a prefix of the other.
C24_OtherSessionsUnchanged ==
    [][ \A a \in StoreUsers : \A b \in StoreUsers \ {a} :
          (call'.tool = "manage_conversation_state" /\ call'.user_id = a)
          => /\ ReadProfile(Post, b) = ReadProfile(Current, b)
             /\ ReadProgress(Post, b) = ReadProgress(Current, b)
             /\ DictGet(contexts', b, "new_user") = DictGet(contexts, b, "new_user")
             /\ Interactions(history', b) = Interactions(history, b) ]_vars

-----------------------------------------------------------------------------
(* C25 *)

\* C25: list_all for a user returns exactly the entries saved for that user,
\* so that its output does not depend on what any other user has stored.
C25_ListAllOwnEntries ==
    \A a \in StoreUsers :
        (IsStoreCall(call, "list_all") /\ call.user_id = a)
        => result.user_data = [k \in OwnKeys(a) \cap DOMAIN memory |-> memory[k]]

-----------------------------------------------------------------------------
(* C28 *)

\* the step is a call of the tool for this user
ToolStep(tool, user_id) == call'.tool = tool /\ call'.user_id = user_id

\* C28: whatever stage is stored, a recommend_career_paths call for the user
\* stores the stage careers_explored and a save_profile stores
\* profile_complete; neither reports an error for it, so a later stage is
\* replaced by an earlier one without complaint.
C28_StageOverwritten ==
    [][ \A u \in Users :
          /\ ToolStep("recommend_career_paths", u)
             => /\ ReadStage(Post, u) = "careers_explored"
                /\ raised' = "None" => result'.status = "success"
          /\ StoreStep("save_profile", u)
             => /\ ReadStage(Post, u) = "profile_complete"
                /\ raised' = "None" /\ result'.status = "success" ]_vars

\* recommend_career_paths has returned as the call after a save_progress, which
\* had stored the stage learning_in_progress: the stage is careers_explored
C28_Witness ==
    /\ call.tool = "recommend_career_paths" /\ call.user_id = "u"
    /\ raised = "None" /\ result.status = "success"
    /\ "u_progress" \in DOMAIN memory /\ history["u"].interactions = 3
    /\ contexts["u"] = "careers_explored"

-----------------------------------------------------------------------------
(* C29 *)

\* the number of non-empty comma-separated skills of each input, counted by hand
CountedSkills ==
    [x \in CompletedSkillsInputs |->
        CASE x = "" -> 0
          [] x = "a, ,b," -> 2
          [] x = "html, css, git" -> 3
          [] x = "a,b,c,d,e,f" -> 6
          [] x = "a,b,c,d,e,f,g,h,i,j" -> 10
          [] x = "a,b,c,d,e,f,g,h,i,j,k,l,m,n,o" -> 15
          [] OTHER -> 16]

\* the last call is track_learning_progress for the user
TrackCalled(user_id) == call.tool = "track_learning_progress" /\ call.user_id = user_id

\* the four badges awarded for the number of skills
SkillBadges(badges) ==
    Range(badges) \cap {"Quick Starter", "Knowledge Builder", "Skill Master", "Career Ready"}

\* C29 (as amended): track_learning_progress counts the non-empty
\* comma-separated skills; the percentage it reports is min(count/15 * 100, 100)
\* rounded to one decimal and lies in 0..100; the skill badges are awarded
\* exactly at counts >= 3, >= 6, >= 10 and >= 15; the snapshot stored for the
\* user holds the same count and badges and the percentage unrounded; and
\* get_progress returns what is stored.
C29_ProgressSnapshot ==
    \A u \in Users :
        /\ TrackCalled(u)
           => LET n == CountedSkills[call.args[1]]
                  p == result.progress_percentage
              IN  /\ raised = "None"
                  /\ result.achievement_summary.total_skills = n
                  /\ Len(result.completed_skills) = n
                  /\ p \in 0..1000
                  /\ IF n >= 15 THEN p = 1000 ELSE 2 * Abs(15 * p - 1000 * n) <= 15
                  /\ SkillBadges(result.earned_badges)
                       = {b \in {"Quick Starter"} : n >= 3}
                           \cup {b \in {"Knowledge Builder"} : n >= 6}
                           \cup {b \in {"Skill Master"} : n >= 10}
                           \cup {b \in {"Career Ready"} : n >= 15}
                  /\ \E now \in Clock :
                        memory[u \o "_progress"]
                          = JsonDumpsProgress(n, result.earned_badges,
                                IF n >= 15 THEN 100000 ELSE (100000 * n) \div 15, now)
        /\ (IsStoreCall(call, "get_progress") /\ call.user_id = u)
           => result.progress = DictGet(memory, u \o "_progress", "{}")

\* C29 as stated: the percentage of the stored snapshot is the one reported.
C29_SamePercentage ==
    \A u \in Users :
        TrackCalled(u)
        => \E now \in Clock :
              memory[u \o "_progress"]
                = JsonDumpsProgress(result.achievement_summary.total_skills,
                                    result.earned_badges,
                                    100 * result.progress_percentage, now)

\* two skills among empty pieces were tracked: 13.3 is reported, no badge is
\* awarded, and the snapshot is stored
C29_Witness ==
    /\ TrackCalled("u") /\ call.args[1] = "a, ,b,"
    /\ result.progress_percentage = 133 /\ result.earned_badges = <<>>
    /\ "u_progress" \in DOMAIN memory

-----------------------------------------------------------------------------
(* C30 *)

\* the last call is recommend_career_paths and it returned
RecommendReturned == call.tool = "recommend_career_paths" /\ raised = "None"

\* the match score of every career of the database, in database order, for
\* every input
ComputedScores ==
    DictOf([x \in InterestsInputs \X ExperienceLevels |->
               MapSeq(career_database, LAMBDA d : MatchScore(x[1], x[2], d))],
           InterestsInputs \X ExperienceLevels)

\* C30: what recommend_career_paths returns holds at most 3 careers, each a
\* different career of the database with its computed match score, which is
\* above 30; they are in descending order of score; no career above the
\* threshold that is left out has a higher score than a returned one; and
\* total_matches is the number of careers above the threshold, never smaller
\* than the number returned.
C30_TopCareers ==
    RecommendReturned
    => LET top    == result.recommended_careers
           scores == ComputedScores[<<call.args[1], call.args[2]>>]
           above  == {i \in 1..Len(career_database) : scores[i] > 30}
           chosen == {i \in above : \E j \in 1..Len(top) :
                                       top[j].career = career_database[i].career}
       IN  /\ Len(top) <= 3
           /\ Cardinality(chosen) = Len(top)
           /\ \A j \in 1..Len(top) :
                 /\ top[j].match_score > 30
                 /\ \E i \in chosen : /\ career_database[i].career = top[j].career
                                      /\ scores[i] = top[j].match_score
           /\ \A j \in 1..(Len(top) - 1) : top[j].match_score >= top[j + 1].match_score
           /\ \A i \in above \ chosen : \A j \in 1..Len(top) :
                 scores[i] <= top[j].match_score
           /\ result.total_matches = Cardinality(above)
           /\ result.total_matches >= Len(top)

\* more careers matched than are returned, and the three returned do not all
\* have the same score
C30_Witness ==
    /\ RecommendReturned
    /\ Len(result.recommended_careers) = 3 /\ result.total_matches > 3
    /\ result.recommended_careers[1].match_score > result.recommended_careers[3].match_score

-----------------------------------------------------------------------------
(* C26 *)

\* C26: a recommend_career_paths call that directly follows the user's
\* generate_learning_curriculum call returns no generate_curriculum
\* auto-action; one made while the stored stage is not learning_planned and not
\* directly after that call returns one.
C26_NoCurriculumAfterPlanning ==
    [][ \A u \in Users :
          (ToolStep("recommend_career_paths", u) /\ raised' = "None")
          => /\ (call.tool = "generate_learning_curriculum" /\ call.user_id = u)
                => ~HasAutoAction(result', "generate_curriculum", "high")
             /\ (ReadStage(Current, u) # "learning_planned"
                   /\ call.tool # "generate_learning_curriculum")
                => HasAutoAction(result', "generate_curriculum", "high") ]_vars

-----------------------------------------------------------------------------
(* C27 *)

\* C27: the result of the calculate_learning_costs the agent registers carries
\* the follow-up suggestions of auto_chain_tools, and the find_scholarships
\* auto-action whenever the total cost it computed exceeds 1000.
C27_CostToolChains ==
    (call.tool = "calculate_learning_costs" /\ result.status = "success")
    => /\ "next_suggestions" \in DOMAIN result
       /\ "auto_actions" \in DOMAIN result
       /\ result.cost_breakdown.total_range.average > ScholarshipThreshold
          => HasAutoAction(result, "find_scholarships", "medium")

-----------------------------------------------------------------------------
(* Two save_profile calls for one user that overlap in time *)

\* Each call executes lines 38-60 of manage_conversation_state one statement
\* at a time, the statement that counts the interaction (line 50) as its two
\* reads and its write; between two steps of one call the other call may run.
\* A step reads or writes at most one shared object, as one bytecode does.

\* the user both calls name
RaceUser == "u"

\* the data argument of each of the two calls
WrittenData == [t \in Writers |-> "d" \o ToString(t)]

\* the profile a save_profile that returned earlier has stored
PriorData == "d0"

\* the heap and the attributes after that earlier call
PriorHeap ==
    << (RaceUser \o "_profile") :> PriorData, RaceUser :> "profile_complete", RaceUser :> 4,
       [interactions |-> 1, last_context |-> "general"] >>

PriorAttrs == [memory |-> 1, contexts |-> 2, interaction_history |-> 3]

seqVars == <<memory, contexts, history, result, raised, call>>

\* the process starts with no attribute set, or after a save_profile returned
InitRace ==
    /\ Sequential
    /\ threads = [t \in Writers |-> NotStarted]
    /\ \/ attrs = NoAttrs /\ heap = <<>>
       \/ attrs = PriorAttrs /\ heap = PriorHeap

\* reading an attribute that is not set raises AttributeError
AttributeError(t) == [threads EXCEPT ![t].outcome = "AttributeError", ![t].pc = "done"]

\* line 38: if not hasattr(manage_conversation_state, 'memory')
HasAttr(t) ==
    /\ threads[t].pc = "l38"
    /\ threads' = [threads EXCEPT ![t].pc = IF attrs.memory = 0 THEN "l39" ELSE "l43"]
    /\ UNCHANGED <<attrs, heap, seqVars>>

\* line 39: manage_conversation_state.memory = {}
InitMemory(t) ==
    /\ threads[t].pc = "l39"
    /\ heap' = Append(heap, EmptyDict)
    /\ attrs' = [attrs EXCEPT !.memory = Len(heap) + 1]
    /\ threads' = [threads EXCEPT ![t].pc = "l40"]
    /\ UNCHANGED seqVars

\* line 40: manage_conversation_state.contexts = {}
InitContexts(t) ==
    /\ threads[t].pc = "l40"
    /\ heap' = Append(heap, EmptyDict)
    /\ attrs' = [attrs EXCEPT !.contexts = Len(heap) + 1]
    /\ threads' = [threads EXCEPT ![t].pc = "l41"]
    /\ UNCHANGED seqVars

\* line 41: manage_conversation_state.interaction_history = {}
InitHistory(t) ==
    /\ threads[t].pc = "l41"
    /\ heap' = Append(heap, EmptyDict)
    /\ attrs' = [attrs EXCEPT !.interaction_history = Len(heap) + 1]
    /\ threads' = [threads EXCEPT ![t].pc = "l43"]
    /\ UNCHANGED seqVars

\* line 43: memory = manage_conversation_state.memory
LoadMemory(t) ==
    /\ threads[t].pc = "l43"
    /\ threads' = IF attrs.memory = 0 THEN AttributeError(t)
                  ELSE [threads EXCEPT ![t].memory = attrs.memory, ![t].pc = "l44"]
    /\ UNCHANGED <<attrs, heap, seqVars>>

\* line 44: contexts = manage_conversation_state.contexts
LoadContexts(t) ==
    /\ threads[t].pc = "l44"
    /\ threads' = IF attrs.contexts = 0 THEN AttributeError(t)
                  ELSE [threads EXCEPT ![t].contexts = attrs.contexts, ![t].pc = "l45"]
    /\ UNCHANGED <<attrs, heap, seqVars>>

\* line 45: history = manage_conversation_state.interaction_history
LoadHistory(t) ==
    /\ threads[t].pc = "l45"
    /\ threads' = IF attrs.interaction_history = 0 THEN AttributeError(t)
                  ELSE [threads EXCEPT ![t].history = attrs.interaction_history,
                                       ![t].pc = "l48"]
    /\ UNCHANGED <<attrs, heap, seqVars>>

\* line 48: if user_id not in history
CheckHistory(t) ==
    /\ threads[t].pc = "l48"
    /\ threads' = [threads EXCEPT ![t].pc =
                      IF RaceUser \in DOMAIN heap[threads[t].history] THEN "l50" ELSE "l49"]
    /\ UNCHANGED <<attrs, heap, seqVars>>

\* line 49: history[user_id] = {"interactions": 0, "last_context": "general", ...}
NewEntry(t) ==
    /\ threads[t].pc = "l49"
    /\ heap' = Append([heap EXCEPT ![threads[t].history] = DictSet(@, RaceUser, Len(heap) + 1)],
                      [interactions |-> 0, last_context |-> "general"])
    /\ threads' = [threads EXCEPT ![t].pc = "l50"]
    /\ UNCHANGED <<attrs, seqVars>>

\* line 50, history[user_id]["interactions"] += 1: the entry is fetched,
LoadEntry(t) ==
    /\ threads[t].pc = "l50"
    /\ threads' = [threads EXCEPT ![t].entry = heap[threads[t].history][RaceUser],
                                  ![t].pc = "l50_read"]
    /\ UNCHANGED <<attrs, heap, seqVars>>

\* its count is read,
LoadInteractions(t) ==
    /\ threads[t].pc = "l50_read"
    /\ threads' = [threads EXCEPT ![t].interactions = heap[threads[t].entry].interactions,
                                  ![t].pc = "l50_write"]
    /\ UNCHANGED <<attrs, heap, seqVars>>

\* and the count plus one is written into the entry that was fetched
StoreInteractions(t) ==
    /\ threads[t].pc = "l50_write"
    /\ heap' = [heap EXCEPT ![threads[t].entry].interactions = threads[t].interactions + 1]
    /\ threads' = [threads EXCEPT ![t].pc = "l53"]
    /\ UNCHANGED <<attrs, seqVars>>

\* line 53: memory[f"{user_id}_profile"] = data
StoreProfile(t) ==
    /\ threads[t].pc = "l53"
    /\ heap' = [heap EXCEPT ![threads[t].memory] =
                   DictSet(@, RaceUser \o "_profile", WrittenData[t])]
    /\ threads' = [threads EXCEPT ![t].pc = "l54"]
    /\ UNCHANGED <<attrs, seqVars>>

\* line 54: contexts[user_id] = "profile_complete"
StoreContext(t) ==
    /\ threads[t].pc = "l54"
    /\ heap' = [heap EXCEPT ![threads[t].contexts] = DictSet(@, RaceUser, "profile_complete")]
    /\ threads' = [threads EXCEPT ![t].pc = "l55"]
    /\ UNCHANGED <<attrs, seqVars>>

\* lines 55-60: the dict with status success is returned
ReturnSaved(t) ==
    /\ threads[t].pc = "l55"
    /\ threads' = [threads EXCEPT ![t].outcome = "success", ![t].pc = "done"]
    /\ UNCHANGED <<attrs, heap, seqVars>>

NextRace ==
    \/ \E t \in Writers : HasAttr(t)
    \/ \E t \in Writers : InitMemory(t)
    \/ \E t \in Writers : InitContexts(t)
    \/ \E t \in Writers : InitHistory(t)
    \/ \E t \in Writers : LoadMemory(t)
    \/ \E t \in Writers : LoadContexts(t)
    \/ \E t \in Writers : LoadHistory(t)
    \/ \E t \in Writers : CheckHistory(t)
    \/ \E t \in Writers : NewEntry(t)
    \/ \E t \in Writers : LoadEntry(t)
    \/ \E t \in Writers : LoadInteractions(t)
    \/ \E t \in Writers : StoreInteractions(t)
    \/ \E t \in Writers : StoreProfile(t)
    \/ \E t \in Writers : StoreContext(t)
    \/ \E t \in Writers : ReturnSaved(t)

SpecRace == InitRace /\ [][NextRace]_vars

-----------------------------------------------------------------------------
(* C23 *)

\* both calls have returned or raised
RaceOver == \A t \in Writers : threads[t].pc = "done"

\* the dict an attribute of the function object refers to
AttrDict(name) == heap[attrs[name]]

\* C23: when two save_profile calls for one user have overlapped in any way,
\* the profile stored for the user is the data of one of the two calls, one of
\* a call that returned success, and neither the stage nor the history entry
\* of the user is missing.
C23_OneOfTheWrites ==
    RaceOver
    => /\ attrs.memory # 0 /\ attrs.contexts # 0 /\ attrs.interaction_history # 0
       /\ (RaceUser \o "_profile") \in DOMAIN AttrDict("memory")
       /\ \E t \in Writers :
             /\ threads[t].outcome = "success"
             /\ AttrDict("memory")[RaceUser \o "_profile"] = WrittenData[t]
       /\ DictGet(AttrDict("contexts"), RaceUser, "new_user") = "profile_complete"
       /\ RaceUser \in DOMAIN AttrDict("interaction_history")

\* both calls returned success in a process that had no store yet; the first
\* call's data is what is stored, and one of the two interactions was lost
C23_Witness ==
    /\ RaceOver
    /\ \A t \in Writers : threads[t].outcome = "success"
    /\ AttrDict("memory")[RaceUser \o "_profile"] = WrittenData[1]
    /\ heap[AttrDict("interaction_history")[RaceUser]].interactions = 1

-----------------------------------------------------------------------------
(* server.py: the chat endpoint and its dispatcher; streamlit_app.py: the *)
(* dashboard's dispatcher                                                 *)

\* a JSON string and a JSON number as they arrive in the request body
JsonStr(s) == [type |-> "str", value |-> s]

JsonInt(s) == [type |-> "int", value |-> s]

\* request.json when the body holds no JSON object
JsonNull == [json_null |-> TRUE]

MessageInputs ==
    {JsonStr(s) : s \in {"", "Hello my name is Ana", "my profile", "learn data",
                         "a design course", "cost", "Recommend a career", "thanks"}}
        \cup {JsonInt("5")}

\* the user ids a caller supplies
UserIdInputs == {"u", "default_user"}

\* the request bodies: with and without user_id, without message, and null
RequestInputs ==
    {[message |-> m, user_id |-> u] : m \in MessageInputs, u \in UserIdInputs}
        \cup {[message |-> m] : m \in MessageInputs}
        \cup {[user_id |-> u] : u \in UserIdInputs}
        \cup {JsonNull}

\* server.py lines 16-23: the import of the agent succeeded
AGENT_AVAILABLE == TRUE

\* the user_id default of every tool of agent.py
default_user == "default_user"

\* Python's truth value of a JSON string or number
Truthy(v) == IF v.type = "str" THEN v.value # "" ELSE v.value # "0"

\* any(word in message_lower for word in words)
AnyWordIn(message_lower, words) == \E w \in words : Contains(message_lower, w)

WordChars == LowerAlphabet \o Digits \o "_"

IsWordChar(c) == \E i \in 1..Len(WordChars) : SubSeq(WordChars, i, i) = c

\* the longest run of word characters of s that starts at position i
RECURSIVE WordAt(_, _)
WordAt(s, i) ==
    IF i > Len(s) \/ ~IsWordChar(SubSeq(s, i, i)) THEN ""
    ELSE SubSeq(s, i, i) \o WordAt(s, i + 1)

\* re.search(r'my name is (\w+)', message_lower): group 1 of the first match,
\* "" when there is none
NameMatch(message_lower) ==
    LET prefix == "my name is "
        starts == {i \in 1..Len(message_lower) :
                      /\ i + Len(prefix) <= Len(message_lower)
                      /\ SubSeq(message_lower, i, i + Len(prefix) - 1) = prefix
                      /\ WordAt(message_lower, i + Len(prefix)) # ""}
    IN  IF starts = {} THEN ""
        ELSE WordAt(message_lower, (CHOOSE i \in starts : \A j \in starts : i <= j)
                                       + Len(prefix))

\* str(e) of the exceptions the try block can raise
ExceptionText(e) ==
    IF e = "AttributeError" THEN "'int' object has no attribute 'lower'"
    ELSE IF e = "ZeroDivisionError" THEN "integer division or modulo by zero"
    ELSE e

\* lines 250-256: what the dispatcher returns for an exception it caught
error_response(e) ==
    [message |-> "I encountered an error: " \o ExceptionText(e) \o ". Please try again.",
     suggestions |-> <<"Try a different question", "Check your connection">>,
     type |-> "error"]

\* result = f(...) followed by the statements that read result: value is
\* evaluated once and Rest is applied to it
Bind(value, Rest(_)) == CHOOSE r \in {Rest(v) : v \in {value}} : TRUE

\* a tool call inside the try block: the response built from the tool's
\* result, or the tool's exception
Try(out, response) ==
    [st |-> out.st, raised |-> out.raised,
     ret |-> IF out.raised = "None" THEN response ELSE NoResult]

\* a response built without calling a tool that can raise
Respond(st, response) == [st |-> st, raised |-> "None", ret |-> response]

\* a variant without the handler: the exception leaves the function
Uncaught(out) == out

\* lines 114 and 250-256, try ... except Exception: an exception of the body
\* becomes the error response; what was written to the store before it was
\* raised stays written
Caught(out) ==
    IF out.raised = "None" THEN out
    ELSE [st |-> out.st, raised |-> "None", ret |-> error_response(out.raised)]

\* lines 150-156: the career a learning message is about
MessageCareer(message_lower) ==
    IF Contains(message_lower, "data") THEN "Data Scientist"
    ELSE IF Contains(message_lower, "design") \/ Contains(message_lower, "ux")
    THEN "UX Designer"
    ELSE "Software Developer"

\* lines 125-231: the branch of the if/elif chain a lowered message takes
Route(message_lower) ==
    IF AnyWordIn(message_lower, {"hello", "hi", "start", "begin", "help"}) THEN "welcome"
    ELSE IF AnyWordIn(message_lower, {"profile", "about me", "background"})
    THEN "profile_collection"
    ELSE IF AnyWordIn(message_lower, {"course", "learn", "curriculum", "education"})
    THEN "curriculum"
    ELSE IF AnyWordIn(message_lower, {"cost", "price", "money", "budget", "financial"})
    THEN "financial"
    ELSE IF AnyWordIn(message_lower, {"job", "career", "recommend", "suggestion"})
    THEN "career_recommendations"
    ELSE "general"

\* lines 123-156 for every message, computed once: whether message.lower()
\* is there, the branch taken, the name and the career found in the message
MessageRoutes ==
    DictOf([m \in MessageInputs |->
               IF m.type # "str"
               THEN [lower |-> FALSE, route |-> "", name |-> "", career |-> ""]
               ELSE LET message_lower == Lower(m.value)
                        name_match == NameMatch(message_lower)
                    IN  [lower  |-> TRUE,
                         route  |-> Route(message_lower),
                         name   |-> IF name_match # "" THEN name_match ELSE "User",
                         career |-> MessageCareer(message_lower)]],
           MessageInputs)

\* lines 115-248, the body of the try block: the store after it, the dict it
\* returns and the exception it raises.  message.lower() raises for a message
\* that is not a string.  user_id is not passed to any tool: the tools run
\* with their own default.
dispatch_message(st, message, user_id, rnd) ==
    LET found == MessageRoutes[message]
        route == found.route
    IN  IF ~found.lower
        THEN [st |-> st, raised |-> "AttributeError", ret |-> NoResult]
        ELSE IF route = "welcome"
        THEN LET res == start_career_journey(found.name)
             IN  Respond(st, [message |-> res.welcome_message,
                              suggestions |-> res.next_steps,
                              type |-> "welcome"])
        ELSE IF route = "profile_collection"
        THEN Respond(st, [message |-> "I'd love to learn about you! Please tell me:",
                          suggestions |-> <<"I'm a marketing graduate",
                                            "I have 2 years experience",
                                            "I'm interested in technology">>,
                          type |-> "profile_collection"])
        ELSE IF route = "curriculum"
        THEN LET career == found.career
             IN  Bind(generate_learning_curriculum(st, career, "", "2-3 hours daily",
                                                   default_user, rnd),
                      LAMBDA out :
                          Try(out,
                              [message |-> "Learning Path for " \o career \o " Duration: "
                                               \o out.ret.curriculum.duration,
                               suggestions |-> <<"Calculate learning costs",
                                                 "Find scholarships", "Track my progress">>,
                               type |-> "curriculum"]))
        ELSE IF route = "financial"
        THEN LET career == "Software Developer"
                 res == CostResults[<<career, "online courses", "2-3 hours daily">>]
             IN  Respond(st, [message |-> "Cost Analysis for " \o career \o " Total: $"
                                              \o ToString(res.cost_breakdown.total_range.average),
                              suggestions |-> <<"Find scholarships", "Explore payment plans",
                                                "Compare bootcamp costs">>,
                              type |-> "financial"])
        ELSE IF route = "career_recommendations"
        THEN Bind(recommend_career_paths(st, "technology, problem solving", "",
                                         "beginner", default_user),
                  LAMBDA out :
                      Try(out,
                          [message |-> "Career Recommendations Based on Your Interests: "
                                           \o out.ret.recommended_careers[1].career,
                           suggestions |-> <<"Create learning plan", "Calculate costs",
                                             "Find job opportunities">>,
                           type |-> "career_recommendations"]))
        ELSE Respond(st, [message |-> "I'm SkillSphere, your AI career advisor!",
                          suggestions |-> <<"Help me choose a career",
                                            "Show me learning resources",
                                            "Calculate learning costs", "Find scholarships">>,
                          type |-> "general"])

\* call_agent_sync: the try block with its handler
call_agent_sync(st, message, user_id, rnd) ==
    Bind(dispatch_message(st, message, user_id, rnd), Caught)

\* chat: the store after the request, the HTTP status and the JSON body; the
\* handler of lines 72-76 answers 500 for an exception of lines 56-70
chat(st, data, rnd) ==
    IF ~AGENT_AVAILABLE
    THEN [st |-> st, http |-> 500,
          body |-> [error |-> "Agent not loaded",
                    message |-> "Please check agent.py file and ADK installation"]]
    ELSE IF data = JsonNull
    THEN [st |-> st, http |-> 500,
          body |-> [error |-> "Agent execution failed",
                    message |-> "'NoneType' object has no attribute 'get'"]]
    ELSE
    LET user_message == DictGet(data, "message", JsonStr(""))
        user_id == DictGet(data, "user_id", default_user)
    IN  IF ~Truthy(user_message)
        THEN [st |-> st, http |-> 400, body |-> [error |-> "No message provided"]]
        ELSE Bind(call_agent_sync(st, user_message, user_id, rnd),
                  LAMBDA out :
                      IF out.raised # "None"
                      THEN [st |-> out.st, http |-> 500,
                            body |-> [error |-> "Agent execution failed",
                                      message |-> ExceptionText(out.raised)]]
                      ELSE [st |-> out.st, http |-> 200,
                            body |-> [status |-> "success", response |-> out.ret,
                                      user_id |-> user_id]])

\* the tools the dashboard dispatches on
DashboardTools ==
    {"collect_user_profile", "analyze_resume_skills", "recommend_career_paths",
     "generate_learning_curriculum", "track_learning_progress",
     "calculate_learning_costs", "find_scholarships"}

ToolNameInputs == DashboardTools \cup {"no_such_tool"}

\* call_agent_tool.  With the agent imported, building the tools dict (lines
\* 73-81) reads the names the import of lines 84-88 binds afterwards in the
\* same function, which raises UnboundLocalError inside the try block; the
\* handler of lines 95-96 turns it into the result.  No tool is reached.
call_agent_tool(DIRECT_AGENT, tool_name) ==
    IF DIRECT_AGENT
    THEN [status |-> "error",
          message |-> "Error calling tool: cannot access local variable "
                          \o "'collect_user_profile' where it is not associated with a value"]
    ELSE [status |-> "error", message |-> "Direct agent integration not available"]

\* the user_id a request names
RequestUser(data) == IF data = JsonNull THEN "" ELSE DictGet(data, "user_id", default_user)

\* POST /api/chat
Chat ==
    \E data \in RequestInputs, rnd \in RandomDraws :
    \E out \in {chat(Current, data, rnd)} :
        /\ Called("chat", RequestUser(data), <<data>>)
        /\ Commit([st |-> out.st, raised |-> "None",
                   ret |-> [http |-> out.http, body |-> out.body]], default_user)

\* call_agent_sync called on its own
CallAgentSync ==
    \E message \in MessageInputs, user_id \in UserIdInputs, rnd \in RandomDraws :
    \E out \in {call_agent_sync(Current, message, user_id, rnd)} :
        /\ Called("call_agent_sync", user_id, <<message>>)
        /\ Commit(out, default_user)

\* a page of the dashboard calls a tool
CallAgentTool ==
    \E DIRECT_AGENT \in BOOLEAN, tool_name \in ToolNameInputs :
        /\ Called("call_agent_tool", "", <<tool_name>>)
        /\ Return(call_agent_tool(DIRECT_AGENT, tool_name))

NextServer ==
    \/ Chat
    \/ CallAgentSync
    \/ CallAgentTool

SpecServer == Init /\ [][NextServer]_vars

-----------------------------------------------------------------------------
(* C21 *)

\* C21: a chat request that names the user id U changes the stage, the
\* interaction count, the profile and the progress of no session other than
\* U's (default_user being U when the request names none).
C21_ChatSessionOfCaller ==
    [][ call'.tool = "chat"
        => \A b \in UserIdInputs \ {call'.user_id} :
              /\ ReadStage(Post, b) = ReadStage(Current, b)
              /\ Interactions(history', b) = Interactions(history, b)
              /\ ReadProfile(Post, b) = ReadProfile(Current, b)
              /\ ReadProgress(Post, b) = ReadProgress(Current, b) ]_vars

-----------------------------------------------------------------------------
(* C22 *)

\* the fallback suggestions of the chat path
FallbackSuggestions == error_response("").suggestions

\* C22: call_agent_sync and call_agent_tool never raise: they return a result
\* with a non-empty message.  A result of call_agent_sync for a failure (as
\* for a message that has no lower()) has type error, and every result of
\* type error carries the static, non-empty fallback suggestions; the same
\* holds of the response a chat request is answered with.
C22_CaughtAtDispatch ==
    /\ call.tool \in {"call_agent_sync", "call_agent_tool"}
       => /\ raised = "None"
          /\ "message" \in DOMAIN result /\ result.message # ""
    /\ call.tool = "call_agent_tool" => result.status = "error"
    /\ call.tool = "call_agent_sync"
       => /\ call.args[1].type # "str" => result.type = "error"
          /\ result.type = "error"
             => result.suggestions = FallbackSuggestions /\ Len(result.suggestions) > 0
    /\ (call.tool = "chat" /\ result.http = 200)
       => LET response == result.body.response
          IN  /\ response.message # ""
              /\ call.args[1].message.type # "str" => response.type = "error"
              /\ response.type = "error"
                 => response.suggestions = FallbackSuggestions
                    /\ Len(response.suggestions) > 0

\* call_agent_sync was called with a number as message: the AttributeError of
\* message.lower() came back as the error response
C22_Witness ==
    /\ call.tool = "call_agent_sync" /\ call.args[1] = JsonInt("5")
    /\ raised = "None" /\ result.type = "error"
    /\ result.suggestions = <<"Try a different question", "Check your connection">>

=============================================================================
